---- MODULE Spec2Model ----
(***************************************************************************)
(* Request execution and pagination layer of the go-nexentastor provider   *)
(* (pkg/ns/types.go, pkg/ns/api.go) over the REST client                   *)
(* (pkg/rest/client.go).                                                   *)
(*                                                                         *)
(* Every provider method is a synchronous call.  A call made by the        *)
(* caller is one action: it runs the method to its return, consuming the   *)
(* wire outcomes of the Sends it makes in order, and leaves the returned   *)
(* values in ret and the Sends it made in sent.  Return hands control back *)
(* to the caller.                                                          *)
(***************************************************************************)
EXTENDS Integers, Sequences, FiniteSets, TLC

VARIABLES
    shares,     \* appliance: the project's shares, in listing order
    volumes,    \* appliance: the volume group's volumes, in listing order
    snapshots,  \* appliance: the snapshots of the shares, oldest first
    collected,  \* caller: the pages a token walk has collected so far
    pc,         \* "idle": the caller may call; "done": a call has returned
    call,       \* the method called last and its arguments
    ret,        \* what that call returned
    sent,       \* the RestClient.Send invocations of that call, in order
    client,     \* rest.Client: its mutex and its request counter
    goroutines  \* the callers that share the client, each where it stands

vars ==
    <<shares, volumes, snapshots, collected, pc, call, ret, sent, client,
      goroutines>>

\* the client as NewClient leaves it: mux free (0, else the goroutine that
\* holds it) and requestID 0.  The specifications of one caller leave the
\* counter out: it goes to the log only.
NoClient == [mux |-> 0, requestID |-> 0]

\* no caller but the one of pc, call and ret
NoGoroutines == <<>>

----------------------------------------------------------------------------
(* Bounds of the model. *)

\* largest share collection of the request-executor specification
MaxShares == 1

----------------------------------------------------------------------------
(* Response bodies.  A body is the byte string read from the response; it  *)
(* is kept by what encoding/json makes of it: nil (no body was read),      *)
(* empty, not JSON, the JSON null, a JSON object with its "code" and       *)
(* "message" members (and "data" in items), or a JSON array (items).       *)

Body(kind, code, message, items) ==
    [kind |-> kind, code |-> code, message |-> message, items |-> items]

NilBody == Body("nil", "", "", <<>>)

EmptyBody == Body("empty", "", "", <<>>)

InvalidBody == Body("invalid", "", "", <<>>)

NullBody == Body("null", "", "", <<>>)

ObjectBody(code, message) == Body("object", code, message, <<>>)

ArrayBody(items) == Body("array", "", "", items)

\* len(bodyBytes) == 0
BodyIsEmpty(body) == body.kind \in {"nil", "empty"}

\* json.Valid(bodyBytes)
jsonValid(body) == body.kind \in {"null", "object", "array"}

\* json.Unmarshal(bodyBytes, &v) fails: v is a struct ("struct") or a slice
\* ("slice"); null decodes into either and leaves it untouched
jsonUnmarshalFails(body, target) ==
    CASE body.kind = "null" -> FALSE
      [] body.kind = "object" -> target # "struct"
      [] body.kind = "array" -> target # "slice"
      [] OTHER -> TRUE

----------------------------------------------------------------------------
(* Errors. *)

Error(type, code, prefix, message, status, body) ==
    [type |-> type, code |-> code, prefix |-> prefix, message |-> message,
     status |-> status, body |-> body]

\* the nil error
NoError == Error("nil", "", "", "", 0, NilBody)

\* &NefError{Err: fmt.Errorf("%s: %s", prefix, message), Code: code}
NefError(code, prefix, message) == Error("nef", code, prefix, message, 0, NilBody)

\* an error of the transport (http.Client.Do, ioutil.ReadAll)
TransportError(what) == Error("transport", "", what, "", 0, NilBody)

\* fmt.Errorf("Request returned %d code, but response body doesn't contain
\* explanation: %v", statusCode, bodyBytes)
GenericError(status, body) == Error("generic", "", "", "", status, body)

\* fmt.Errorf("Request '%s' responded with ...", path): "empty body",
\* "invalid JSON", "cannot unmarshal JSON"
DecodeError(what, body) == Error("decode", "", what, "", 0, body)

\* fmt.Errorf(...) on a parameter of the call
ValidationError(what) == Error("validation", "", what, "", 0, NilBody)

\* GetNefErrorCode(err) == "EAUTH"
IsAuthNefError(err) == err.type = "nef" /\ err.code = "EAUTH"

StatusUnauthorized == 401

StatusAccepted == 202

----------------------------------------------------------------------------
(* Error Classifier. *)

\* variant: an error body without a code is not reported
parseNefError_NeedsCode(bodyBytes, prefix) ==
    IF jsonUnmarshalFails(bodyBytes, "struct")
    THEN NoError
    ELSE IF bodyBytes.message # "" /\ bodyBytes.code # ""
         THEN NefError(bodyBytes.code, prefix, bodyBytes.message)
         ELSE NoError

parseNefError(bodyBytes, prefix) ==
    IF jsonUnmarshalFails(bodyBytes, "struct")
    THEN NoError
    ELSE LET restErrorCode == bodyBytes.code
             restErrorMessage == bodyBytes.message
         IN IF restErrorMessage # ""
            THEN NefError(restErrorCode, prefix, restErrorMessage)
            ELSE NoError

----------------------------------------------------------------------------
(* Transport.  An outcome is what the wire does with one Send: the request *)
(* cannot be delivered ("doerr"), the response body cannot be read         *)
(* ("readerr"), some reply arrives ("reply"), or the appliance serves the  *)
(* request ("served").                                                     *)

Outcome(kind, status, body) == [kind |-> kind, status |-> status, body |-> body]

Served == Outcome("served", 0, NilBody)

DoError == Outcome("doerr", 0, NilBody)

Expired == Outcome("reply", StatusUnauthorized, ObjectBody("EAUTH", "expired"))

\* the outcome of the n-th Send of a call; the wire serves what rs leaves open
OutcomeAt(rs, n) == IF n <= Len(rs) THEN rs[n] ELSE Served

\* A request path: the bare method name, or what BuildURI makes of a uri and
\* its parameters, "uri?key=value&...", kept as the set of its
\* <<key, value>> pairs.
Endpoint(uri) == [uri |-> uri, query |-> {}]

\* BuildURI: parameters with an empty value are left out
BuildURI(uri, params) ==
    [uri |-> uri, query |-> {p \in params : p[2] # ""}]

\* the value of a query parameter, "" when the path has none
QueryValue(path, key) ==
    IF \E p \in path.query : p[1] = key
    THEN (CHOOSE p \in path.query : p[1] = key)[2]
    ELSE ""

\* the number a decimal query value stands for
ParseInt(str) == CHOOSE n \in 0..1000 : ToString(n) = str

Min(a, b) == IF a < b THEN a ELSE b

\* the project the appliance holds shares for: pool "p", project "c"
ProjectParams == <<(<<"p">>), (<<"c">>), TRUE>>

\* the error codes the appliance answers with (provider_test.go: the
\* EZEBI_RESOURCE_INUSE and ENOENT errors the tests expect)
InUseCode == "EZEBI_RESOURCE_INUSE"

NotFoundCode == "ENOENT"

AlreadyExistsCode == "EEXIST"

\* the prefix of the names of the snapshots made through the provider
ZebiSnapshotPrefix == "Manual-S-"

\* the volume group of the appliance
VolumeGroup ==
    [Path |-> "pool-a/vg", BytesAvailable |-> 100, BytesUsed |-> 3]

\* the appliance holds a share with this path
HasShare(path) == \E i \in 1..Len(shares) : shares[i].Path = path

\* the place of a share in the listing; shares are listed in the order of
\* their creation
CreatedAt(path) == CHOOSE i \in 1..Len(shares) : shares[i].Path = path

\* the snapshots of a share, oldest first
SnapshotsOf(path) == SelectSeq(snapshots, LAMBDA sn : sn.Parent = path)

\* the shares cloned from a snapshot of the share
ClonesOf(path) ==
    {c \in {shares[i].Path : i \in 1..Len(shares)} :
        \E k \in 1..Len(snapshots) :
            /\ snapshots[k].Parent = path
            /\ \E j \in 1..Len(snapshots[k].Clones) :
                  snapshots[k].Clones[j] = c}

\* the clone created last
MostRecentClone(path) ==
    CHOOSE c \in ClonesOf(path) :
        \A d \in ClonesOf(path) : CreatedAt(d) <= CreatedAt(c)

\* deleteShare [path, recursive, errorIfNotFound, promote] is refused: the
\* share has snapshots and they are not to be destroyed, or they have clones
\* and none is to be promoted
DeleteShareRefused(path, recursive, promote) ==
    /\ HasShare(path)
    /\ SnapshotsOf(path) # <<>>
    /\ \/ ~recursive
       \/ ClonesOf(path) # {} /\ ~promote

\* the appliance's answer to deleteShare
DeleteShareReply(path, recursive, errorIfNotFound, promote) ==
    IF ~HasShare(path)
    THEN IF errorIfNotFound
         THEN [status |-> 404, body |-> ObjectBody(NotFoundCode, "not found")]
         ELSE [status |-> 200, body |-> ObjectBody("", "")]
    ELSE IF DeleteShareRefused(path, recursive, promote)
         THEN [status |-> 400, body |-> ObjectBody(InUseCode, "in use")]
         ELSE [status |-> 200, body |-> ObjectBody("", "")]

\* the share as getShare reports it
Share_v2(share) ==
    [Path |-> share.Path,
     MountPoint |-> share.MountPoint,
     ShareName |-> "",
     ShareNfs |-> "off",
     ShareSmb |-> "off",
     AvailableSize |-> share.AvailableSize,
     TotalSize |-> share.TotalSize,
     QuotaSize |-> 0]

\* the appliance's answer to getShare [path]
GetShareReply(path) ==
    IF HasShare(path)
    THEN [status |-> 200,
          body |-> Body("object", "", "",
                        <<Share_v2(shares[CreatedAt(path)])>>)]
    ELSE [status |-> 404, body |-> ObjectBody(NotFoundCode, "not found")]

\* the snapshots that the path "share@name" names
SnapshotsNamed(path) ==
    {k \in 1..Len(snapshots) :
        path = snapshots[k].Parent \o "@" \o ZebiSnapshotPrefix
                   \o snapshots[k].Name}

\* the path of the clone of this name: clones are made in the project
CloneTarget(name) == "pool-a/Local/csi/" \o name

\* the appliance's answer to cloneShareSnapshot [path, name, inherit]
CloneShareSnapshotReply(path, name) ==
    IF SnapshotsNamed(path) = {}
    THEN [status |-> 404, body |-> ObjectBody(NotFoundCode, "not found")]
    ELSE IF HasShare(CloneTarget(name))
         THEN [status |-> 400, body |-> ObjectBody(AlreadyExistsCode, "exists")]
         ELSE [status |-> 200, body |-> ObjectBody("", "")]

\* the appliance's reply to a delivered request: listShares answers with the
\* full listing of the project, /storage/volumes with the window of the
\* volumes that limit and offset ask for or with the volume that path names,
\* /storage/volumeGroups with the volume group that path names,
\* deleteShare, getShare and cloneShareSnapshot as above, any other method
\* with an empty object
Appliance(path, data) ==
    CASE path.uri = "listShares" ->
            [status |-> 200,
             body |-> ArrayBody(IF data = ProjectParams THEN shares ELSE <<>>)]
      [] path.uri = "/storage/volumes" /\ QueryValue(path, "limit") # "" ->
            LET limit == ParseInt(QueryValue(path, "limit"))
                offset == ParseInt(QueryValue(path, "offset"))
            IN [status |-> 200,
                body |-> Body("object", "", "",
                              SubSeq(volumes, offset + 1,
                                     Min(offset + limit, Len(volumes))))]
      [] path.uri = "/storage/volumes" /\ QueryValue(path, "path") # "" ->
            [status |-> 200,
             body |-> Body("object", "", "",
                           SelectSeq(volumes,
                                     LAMBDA v :
                                         v.Path = QueryValue(path, "path")))]
      [] path.uri = "/storage/volumeGroups" /\ QueryValue(path, "path") # "" ->
            [status |-> 200,
             body |-> Body("object", "", "",
                           IF QueryValue(path, "path") = VolumeGroup.Path
                           THEN <<VolumeGroup>>
                           ELSE <<>>)]
      [] path.uri = "deleteShare" /\ Len(data) = 4 ->
            DeleteShareReply(data[1], data[2], data[3], data[4])
      [] path.uri = "getShare" /\ Len(data) = 1 ->
            GetShareReply(data[1])
      [] path.uri = "cloneShareSnapshot" /\ Len(data) = 3 ->
            CloneShareSnapshotReply(data[1], data[2])
      [] OTHER ->
            [status |-> 200, body |-> ObjectBody("", "")]

\* the shares after the appliance has served the request
SharesAfter(path, data) ==
    IF path.uri = "deleteShare" /\ Len(data) = 4
    THEN IF DeleteShareRefused(data[1], data[2], data[4])
         THEN shares
         ELSE SelectSeq(shares, LAMBDA sh : sh.Path # data[1])
    ELSE IF path.uri = "cloneShareSnapshot" /\ Len(data) = 3
         THEN IF CloneShareSnapshotReply(data[1], data[2]).status = 200
              THEN Append(shares,
                          [Path |-> CloneTarget(data[2]),
                           MountPoint |-> "/export/" \o data[2],
                           AvailableSize |-> 10,
                           TotalSize |-> 0])
              ELSE shares
         ELSE shares

\* a snapshot without the share among its clones
WithoutClone(sn, clone) ==
    [sn EXCEPT !.Clones = SelectSeq(sn.Clones, LAMBDA c : c # clone)]

\* the snapshots after deleteShare has destroyed the share: with clones, the
\* clone created last takes the snapshots over and the other clones stay with
\* them; without, the snapshots go with the share
SnapshotsAfterDelete(path) ==
    IF ClonesOf(path) # {}
    THEN [k \in 1..Len(snapshots) |->
             IF snapshots[k].Parent = path
             THEN [WithoutClone(snapshots[k], MostRecentClone(path))
                       EXCEPT !.Parent = MostRecentClone(path)]
             ELSE WithoutClone(snapshots[k], path)]
    ELSE [k \in 1..Len(SelectSeq(snapshots, LAMBDA sn : sn.Parent # path)) |->
             WithoutClone(SelectSeq(snapshots,
                                    LAMBDA sn : sn.Parent # path)[k], path)]

\* the snapshots after the appliance has served the request
SnapshotsAfter(path, data) ==
    IF path.uri = "deleteShare" /\ Len(data) = 4
    THEN IF ~HasShare(data[1]) \/ DeleteShareRefused(data[1], data[2], data[4])
         THEN snapshots
         ELSE SnapshotsAfterDelete(data[1])
    ELSE IF path.uri = "cloneShareSnapshot" /\ Len(data) = 3
         THEN IF CloneShareSnapshotReply(data[1], data[2]).status = 200
              THEN [k \in 1..Len(snapshots) |->
                       IF k \in SnapshotsNamed(data[1])
                       THEN [snapshots[k] EXCEPT
                                !.Clones = Append(@, CloneTarget(data[2]))]
                       ELSE snapshots[k]]
              ELSE snapshots
         ELSE snapshots

Response(status, body, err) == [status |-> status, body |-> body, err |-> err]

Send(path, data, outcome) ==
    CASE outcome.kind = "doerr" ->
            Response(0, NilBody, TransportError("do"))
      [] outcome.kind = "readerr" ->
            Response(outcome.status, NilBody, TransportError("read"))
      [] outcome.kind = "reply" ->
            Response(outcome.status, outcome.body, NoError)
      [] OTHER ->
            LET r == Appliance(path, data)
            IN Response(r.status, r.body, NoError)

\* the log entry of one Send: the request and what came back
Sent(path, data, r) ==
    [path |-> path, data |-> data, status |-> r.status, body |-> r.body,
     err |-> r.err]

\* the last Send of the log that the wire left to the appliance, 0 when
\* there is none
LastServed(log, rs) ==
    IF \E i \in 1..Len(log) : OutcomeAt(rs, i).kind = "served"
    THEN CHOOSE i \in 1..Len(log) :
             /\ OutcomeAt(rs, i).kind = "served"
             /\ \A j \in (i + 1)..Len(log) : OutcomeAt(rs, j).kind # "served"
    ELSE 0

\* what the Sends of a call leave on the appliance.  No method modelled here
\* has the appliance change its shares in more than one Send.
ApplianceServes(log, rs) ==
    IF LastServed(log, rs) = 0
    THEN UNCHANGED <<shares, snapshots>>
    ELSE /\ shares' = SharesAfter(log[LastServed(log, rs)].path,
                                  log[LastServed(log, rs)].data)
         /\ snapshots' = SnapshotsAfter(log[LastServed(log, rs)].path,
                                        log[LastServed(log, rs)].data)

----------------------------------------------------------------------------
(* Request Executor.  A method's local values are passed on as the         *)
(* parameters of the operator that continues it.                           *)

Result(body, err, log) == [body |-> body, err |-> err, log |-> log]

\* variant: every 401 logs in again, whatever the body says
NeedsLogin_AnyUnauthorized(statusCode, nefError) ==
    statusCode = StatusUnauthorized

\* variant: every auth error logs in again, whatever the status
NeedsLogin_AnyAuthCode(statusCode, nefError) ==
    IsAuthNefError(nefError)

\* statusCode == http.StatusUnauthorized && IsAuthNefError(nefError)
NeedsLogin(statusCode, nefError) ==
    statusCode = StatusUnauthorized /\ IsAuthNefError(nefError)

\* the error of a failure status: the classified error, else the generic one
StatusError(statusCode, bodyBytes, nefError) ==
    IF nefError # NoError
    THEN nefError
    ELSE GenericError(statusCode, bodyBytes)

\* variant: the failure range starts above 300
ResponseError_Above300(statusCode, bodyBytes) ==
    IF statusCode = StatusAccepted
    THEN NoError
    ELSE IF statusCode > 300
         THEN StatusError(statusCode, bodyBytes,
                          parseNefError(bodyBytes, "request error"))
         ELSE NoError

\* variant: every status but 200 is a failure status
ResponseError_OnlyOK(statusCode, bodyBytes) ==
    IF statusCode # 200
    THEN StatusError(statusCode, bodyBytes,
                     parseNefError(bodyBytes, "request error"))
    ELSE NoError

\* the error doAuthRequest derives from the final response
ResponseError(statusCode, bodyBytes) ==
    IF statusCode = StatusAccepted
    THEN NoError
    ELSE IF statusCode >= 300
         THEN StatusError(statusCode, bodyBytes,
                          parseNefError(bodyBytes, "request error"))
         ELSE NoError

\* a Send made: the response r, and the log with the Send appended
Logged(path, data, r, log) ==
    [r |-> r, log |-> Append(log, Sent(path, data, r))]

\* p.RestClient.Send(path, data): rs holds the outcomes of the Sends of the
\* call, log the Sends made so far
SendNext(path, data, rs, log) ==
    Logged(path, data, Send(path, data, OutcomeAt(rs, Len(log) + 1)), log)

\* doAuthRequest from its status handling on: s is the last Send
Finish(s) ==
    IF s.r.err # NoError
    THEN Result(s.r.body, s.r.err, s.log)
    ELSE Result(s.r.body, ResponseError(s.r.status, s.r.body), s.log)

RECURSIVE AfterSend_LoginTwice(_, _, _, _)
\* variant: the request is sent again as long as the session is expired,
\* up to twice
AfterSend_LoginTwice(path, data, rs, s) ==
    IF s.r.err # NoError
    THEN Result(s.r.body, s.r.err, s.log)
    ELSE IF NeedsLogin(s.r.status,
                       parseNefError(s.r.body, "checking login status"))
         THEN IF Len(s.log) < 3
              THEN AfterSend_LoginTwice(path, data, rs,
                                        SendNext(path, data, rs, s.log))
              ELSE Finish(s)
         ELSE Finish(s)

\* doAuthRequest after its first Send s
AfterSend(path, data, rs, s) ==
    IF s.r.err # NoError
    THEN Result(s.r.body, s.r.err, s.log)
    ELSE IF NeedsLogin(s.r.status,
                       parseNefError(s.r.body, "checking login status"))
         THEN Finish(SendNext(path, data, rs, s.log))
         ELSE Finish(s)

doAuthRequest(path, data, rs, log) ==
    AfterSend(path, data, rs, SendNext(path, data, rs, log))

\* sendRequest drops the body
ErrorOnly(r) == [err |-> r.err, log |-> r.log]

sendRequest(path, data, rs, log) ==
    ErrorOnly(doAuthRequest(path, data, rs, log))

Decoded(err, value, log) == [err |-> err, value |-> value, log |-> log]

\* variant: a body that is empty or not JSON leaves the receiver untouched
Decode_NoBodyCheck(response, r) ==
    IF r.err # NoError
    THEN Decoded(r.err, NilBody, r.log)
    ELSE IF BodyIsEmpty(r.body) \/ ~jsonValid(r.body)
         THEN Decoded(NoError, NilBody, r.log)
         ELSE IF response # "nil" /\ jsonUnmarshalFails(r.body, response)
              THEN Decoded(DecodeError("cannot unmarshal JSON", r.body),
                           NilBody, r.log)
              ELSE Decoded(NoError,
                           IF response = "nil" \/ r.body.kind = "null"
                           THEN NilBody ELSE r.body,
                           r.log)

\* sendRequestWithStruct after doAuthRequest returned r.  response: "struct",
\* "slice" or "nil" (the caller passes no receiver); value is what the
\* receiver holds on return (NilBody: left at its zero)
Decode(response, r) ==
    IF r.err # NoError
    THEN Decoded(r.err, NilBody, r.log)
    ELSE IF BodyIsEmpty(r.body)
         THEN Decoded(DecodeError("empty body", r.body), NilBody, r.log)
         ELSE IF ~jsonValid(r.body)
              THEN Decoded(DecodeError("invalid JSON", r.body), NilBody, r.log)
              ELSE IF response # "nil" /\ jsonUnmarshalFails(r.body, response)
                   THEN Decoded(DecodeError("cannot unmarshal JSON", r.body),
                                NilBody, r.log)
                   ELSE Decoded(NoError,
                                IF response = "nil" \/ r.body.kind = "null"
                                THEN NilBody ELSE r.body,
                                r.log)

sendRequestWithStruct(path, data, response, rs, log) ==
    Decode(response, doAuthRequest(path, data, rs, log))

----------------------------------------------------------------------------
(* The appliance's collections.  Share i of the project is the i-th the    *)
(* appliance lists.                                                        *)

Share_v1(i) ==
    [Path |-> "pool-a/Local/csi/fs-" \o ToString(i),
     MountPoint |-> "/export/fs-" \o ToString(i),
     AvailableSize |-> 10 + i,
     TotalSize |-> i]

MkShares(n) == [i \in 1..n |-> Share_v1(i)]

----------------------------------------------------------------------------
(* Calls of the request layer. *)

Statuses == {200, StatusAccepted, 299, 300, StatusUnauthorized, 500}

Codes == {"", "EAUTH", "ENOENT"}

Messages == {"", "failed"}

ReplyBodies ==
    {EmptyBody, InvalidBody, NullBody, ArrayBody(<<>>)}
        \cup {ObjectBody(c, m) : c \in Codes, m \in Messages}

Outcomes ==
    {Served, DoError}
        \cup {Outcome("readerr", s, NilBody) : s \in {200, StatusUnauthorized}}
        \cup {Outcome("reply", s, b) : s \in Statuses, b \in ReplyBodies}

Paths == {Endpoint("listShares"), Endpoint("deleteShare")}

Payloads == {<<>>, <<"pool-a/Local/csi/fs-1", TRUE, FALSE, FALSE>>}

Receivers == {"nil", "struct", "slice"}

ExecutorOps == {"doAuthRequest", "sendRequest", "sendRequestWithStruct"}

\* the method returns r: its values go to the caller, its Sends to the log
Returns(r) ==
    /\ ret' = [f \in DOMAIN r \ {"log"} |-> r[f]]
    /\ sent' = r.log

CallParseNefError ==
    /\ pc = "idle"
    /\ \E body \in ReplyBodies \cup {NilBody}, prefix \in {"request error"} :
          /\ call' = [op |-> "parseNefError", body |-> body, prefix |-> prefix]
          /\ ret' = [err |-> parseNefError(body, prefix)]
    /\ sent' = <<>>
    /\ pc' = "done"
    /\ UNCHANGED <<shares, volumes, snapshots, collected>>
    /\ UNCHANGED <<client, goroutines>>

CallDoAuthRequest ==
    /\ pc = "idle"
    /\ \E path \in Paths, data \in Payloads, o1 \in Outcomes, o2 \in Outcomes :
          /\ call' = [op |-> "doAuthRequest", path |-> path, data |-> data,
                      response |-> "nil"]
          /\ Returns(doAuthRequest(path, data, <<o1, o2>>, <<>>))
          /\ ApplianceServes(doAuthRequest(path, data, <<o1, o2>>, <<>>).log,
                             <<o1, o2>>)
    /\ pc' = "done"
    /\ UNCHANGED <<volumes, collected>>
    /\ UNCHANGED <<client, goroutines>>

CallSendRequest ==
    /\ pc = "idle"
    /\ \E path \in Paths, data \in Payloads, o1 \in Outcomes, o2 \in Outcomes :
          /\ call' = [op |-> "sendRequest", path |-> path, data |-> data,
                      response |-> "nil"]
          /\ Returns(sendRequest(path, data, <<o1, o2>>, <<>>))
          /\ ApplianceServes(sendRequest(path, data, <<o1, o2>>, <<>>).log,
                             <<o1, o2>>)
    /\ pc' = "done"
    /\ UNCHANGED <<volumes, collected>>
    /\ UNCHANGED <<client, goroutines>>

CallSendRequestWithStruct ==
    /\ pc = "idle"
    /\ \E path \in Paths, data \in Payloads, response \in Receivers,
          o1 \in Outcomes, o2 \in Outcomes :
          /\ call' = [op |-> "sendRequestWithStruct", path |-> path,
                      data |-> data, response |-> response]
          /\ Returns(sendRequestWithStruct(path, data, response,
                                           <<o1, o2>>, <<>>))
          /\ ApplianceServes(sendRequestWithStruct(path, data, response,
                                                   <<o1, o2>>, <<>>).log,
                             <<o1, o2>>)
    /\ pc' = "done"
    /\ UNCHANGED <<volumes, collected>>
    /\ UNCHANGED <<client, goroutines>>

NoCall == [op |-> "none"]

NoReturn == [err |-> NoError]

\* the caller takes the returned values; the next call may start
Return ==
    /\ pc = "done"
    /\ pc' = "idle"
    /\ call' = NoCall
    /\ ret' = NoReturn
    /\ sent' = <<>>
    /\ collected' = <<>>
    /\ UNCHANGED <<shares, volumes, snapshots>>
    /\ UNCHANGED <<client, goroutines>>

Init ==
    /\ \E n \in 0..MaxShares : shares = MkShares(n)
    /\ volumes = <<>>
    /\ snapshots = <<>>
    /\ collected = <<>>
    /\ pc = "idle"
    /\ call = NoCall
    /\ ret = NoReturn
    /\ sent = <<>>
    /\ client = NoClient /\ goroutines = NoGoroutines

Next ==
    \/ CallParseNefError
    \/ CallDoAuthRequest
    \/ CallSendRequest
    \/ CallSendRequestWithStruct
    \/ Return

Spec == Init /\ [][Next]_vars

----------------------------------------------------------------------------
(* Properties of the Request Executor and the Error Classifier. *)

\* a call of the Request Executor has returned
ExecutorReturned == pc = "done" /\ call.op \in ExecutorOps

\* the Send came back as 401 with a body that classifies as an auth error
SessionExpired(s) ==
    /\ s.err = NoError
    /\ s.status = 401
    /\ s.body.kind = "object"
    /\ s.body.code = "EAUTH"
    /\ s.body.message # ""

\* the body classifies: it parses as an object and carries a message
Classifies(body) == body.kind = "object" /\ body.message # ""

LastSent == sent[Len(sent)]

\* C1: one call of the Request Executor invokes Send at most twice; a second
\* Send happens only after the first came back 401 with an auth error body,
\* and it carries the path and the payload of the first.
C1_AtMostOneResend ==
    ExecutorReturned =>
        /\ Len(sent) \in {1, 2}
        /\ sent[1].path = call.path /\ sent[1].data = call.data
        /\ Len(sent) = 2 =>
              /\ SessionExpired(sent[1])
              /\ sent[2].path = sent[1].path
              /\ sent[2].data = sent[1].data

C1_Witness ==
    /\ pc = "done" /\ call.op = "doAuthRequest"
    /\ call.data # <<>>
    /\ Len(sent) = 2
    /\ sent[2].status = 200

\* C2: a first Send that fails in any way other than auth expiry (a
\* transport error, a failure status other than 401, a 401 whose body does
\* not parse or carries another code, an auth code under another status) is
\* not sent again: the call makes exactly one Send.
C2_NoResendOnOtherFailures ==
    ExecutorReturned =>
        LET s == sent[1]
        IN (\/ s.err # NoError
            \/ s.status >= 300 /\ s.status # 401
            \/ s.status = 401 /\ ~Classifies(s.body)
            \/ s.status = 401 /\ s.body.code # "EAUTH"
            \/ s.status # 401 /\ s.body.code = "EAUTH")
           => Len(sent) = 1

C2_Witness ==
    /\ pc = "done" /\ call.op = "sendRequest"
    /\ Len(sent) = 1
    /\ sent[1].status = 500
    /\ sent[1].body.code = "EAUTH" /\ sent[1].body.message # ""
    /\ ret.err # NoError

\* C3: when the request sent again also comes back 401 with an auth error,
\* the call returns that auth error and makes no third Send.
C3_ResendAuthErrorSurfaces ==
    (ExecutorReturned /\ Len(sent) >= 2 /\ SessionExpired(sent[2])) =>
        /\ Len(sent) = 2
        /\ ret.err.type = "nef"
        /\ ret.err.code = "EAUTH"
        /\ ret.err.message = sent[2].body.message

C3_Witness ==
    /\ pc = "done" /\ call.op = "doAuthRequest"
    /\ Len(sent) = 2
    /\ SessionExpired(sent[1]) /\ SessionExpired(sent[2])
    /\ ret.err.code = "EAUTH"

\* C4: a final response with a status of 300 or more makes the call return
\* an error: the classified error with the body's code when the body
\* classifies, else a generic error holding the raw status and body.
C4_FailureStatusIsError ==
    (ExecutorReturned /\ LastSent.err = NoError /\ LastSent.status >= 300) =>
        /\ ret.err # NoError
        /\ IF Classifies(LastSent.body)
           THEN ret.err.type = "nef" /\ ret.err.code = LastSent.body.code
           ELSE /\ ret.err.type = "generic"
                /\ ret.err.status = LastSent.status
                /\ ret.err.body = LastSent.body

C4_Witness ==
    /\ pc = "done" /\ call.op = "sendRequestWithStruct"
    /\ LastSent.err = NoError
    /\ LastSent.status = 300
    /\ LastSent.body.kind = "invalid"
    /\ ret.err.type = "generic" /\ ret.err.status = 300

\* C5: parseNefError returns an error carrying the body's code whenever the
\* parsed body has a message, returns none when the body is absent or does
\* not parse, and sends nothing.
C5_ParseNefError ==
    (pc = "done" /\ call.op = "parseNefError") =>
        /\ sent = <<>>
        /\ Classifies(call.body) =>
              /\ ret.err.type = "nef"
              /\ ret.err.code = call.body.code
              /\ ret.err.message = call.body.message
        /\ call.body.kind \in {"nil", "empty", "invalid", "array"} =>
              ret.err = NoError

C5_Witness ==
    /\ pc = "done" /\ call.op = "parseNefError"
    /\ call.body.kind = "object"
    /\ call.body.code = "" /\ call.body.message # ""
    /\ ret.err.type = "nef"

\* C6: sendRequestWithStruct called with a receiver fails with a decoding
\* error when the successful response's body is empty or is not JSON.
C6_EmptyOrInvalidBodyFails ==
    (/\ pc = "done" /\ call.op = "sendRequestWithStruct"
     /\ call.response # "nil"
     /\ LastSent.err = NoError
     /\ LastSent.status < 300
     /\ LastSent.body.kind \in {"empty", "invalid"}) =>
        ret.err.type = "decode" /\ ret.value = NilBody

C6_Witness ==
    /\ pc = "done" /\ call.op = "sendRequestWithStruct"
    /\ call.response = "slice"
    /\ LastSent.status = 200
    /\ LastSent.body.kind = "empty"
    /\ ret.err.type = "decode"

----------------------------------------------------------------------------
(* Slice Fetcher.  A path that the code splits is kept as the sequence of  *)
(* its characters.                                                         *)

\* NexentaStor filesystem list limit
nsFilesystemListLimit == 100

RECURSIVE SplitFrom(_, _, _, _)
\* the rest of strings.Split: cur is the component read so far
SplitFrom(str, sep, i, cur) ==
    IF i > Len(str)
    THEN <<cur>>
    ELSE IF str[i] = sep
         THEN <<cur>> \o SplitFrom(str, sep, i + 1, <<>>)
         ELSE SplitFrom(str, sep, i + 1, Append(cur, str[i]))

\* strings.Split(str, sep), sep one character
Split(str, sep) == SplitFrom(str, sep, 1, <<>>)

\* ListSharesParams.MarshalJSON: the positional list
ListSharesParams(pool, project, local) == <<pool, project, local>>

Share_v1toFilesystem(share) ==
    [Path |-> share.Path,
     MountPoint |-> share.MountPoint,
     BytesAvailable |-> share.AvailableSize,
     BytesUsed |-> share.TotalSize,
     SharedOverNfs |-> FALSE,
     SharedOverSmb |-> FALSE,
     QuotaSize |-> 0]

\* variant: limit may be as large as the list limit
LimitOffsetError_LimitInclusive(limit, offset) ==
    IF limit <= 0 \/ limit > nsFilesystemListLimit
    THEN ValidationError("limit")
    ELSE IF offset < 0
         THEN ValidationError("offset")
         ELSE NoError

\* the check of limit and offset that opens both slice methods
LimitOffsetError(limit, offset) ==
    IF limit <= 0 \/ limit >= nsFilesystemListLimit
    THEN ValidationError("limit")
    ELSE IF offset < 0
         THEN ValidationError("offset")
         ELSE NoError

\* variant: the window starts one record late
InWindow_StartsAfterOffset(count, limit, offset) ==
    count > offset /\ count <= offset + limit

\* count >= offset && count < (offset+limit)
InWindow(count, limit, offset) ==
    count >= offset /\ count < offset + limit

RECURSIVE WindowFrom(_, _, _, _, _)
\* for count, share := range shares, for the records lo <= count < hi; the
\* range is walked in two halves, which appends the same records in the same
\* order
WindowFrom(list, lo, hi, limit, offset) ==
    IF hi <= lo
    THEN <<>>
    ELSE IF hi = lo + 1
         THEN IF InWindow(lo, limit, offset)
              THEN <<Share_v1toFilesystem(list[lo + 1])>>
              ELSE <<>>
         ELSE WindowFrom(list, lo, (lo + hi) \div 2, limit, offset)
                  \o WindowFrom(list, (lo + hi) \div 2, hi, limit, offset)

Slice(items, err, log) == [items |-> items, err |-> err, log |-> log]

\* GetFilesystemsSlice after listShares returned r
FilesystemsOf(r, limit, offset) ==
    IF r.err # NoError
    THEN Slice(<<>>, r.err, r.log)
    ELSE Slice(WindowFrom(r.value.items, 0, Len(r.value.items), limit,
                          offset),
               NoError, r.log)

\* GetFilesystemsSlice after the split of parent into path
SliceOfPath(path, limit, offset, rs, log) ==
    IF Len(path) # 3
    THEN Slice(<<>>, ValidationError("parent"), log)
    ELSE FilesystemsOf(
             sendRequestWithStruct(Endpoint("listShares"),
                                   ListSharesParams(path[1], path[3], TRUE),
                                   "slice", rs, log),
             limit, offset)

GetFilesystemsSlice(parent, limit, offset, rs, log) ==
    IF LimitOffsetError(limit, offset) # NoError
    THEN Slice(<<>>, LimitOffsetError(limit, offset), log)
    ELSE SliceOfPath(Split(parent, "/"), limit, offset, rs, log)

\* GetVolumesSlice after the request returned r: response.Data
VolumesOf(r) ==
    IF r.err # NoError
    THEN Slice(<<>>, r.err, r.log)
    ELSE Slice(r.value.items, NoError, r.log)

GetVolumesSlice(parent, limit, offset, rs, log) ==
    IF LimitOffsetError(limit, offset) # NoError
    THEN Slice(<<>>, LimitOffsetError(limit, offset), log)
    ELSE VolumesOf(
             sendRequestWithStruct(
                 BuildURI("/storage/volumes",
                          {<<"parent", parent>>,
                           <<"limit", ToString(limit)>>,
                           <<"offset", ToString(offset)>>}),
                 <<>>, "struct", rs, log))

----------------------------------------------------------------------------
(* Cursor Pagination Emulator. *)

RECURSIVE GetVolumesFrom(_, _, _, _, _, _)
RECURSIVE VolumesAfter(_, _, _, _, _)
\* the loop of GetVolumes, from its condition on
GetVolumesFrom(parent, vols, offset, lastResultCount, rs, log) ==
    IF lastResultCount >= nsFilesystemListLimit
    THEN VolumesAfter(parent, vols, offset, rs,
                      GetVolumesSlice(parent, nsFilesystemListLimit - 1,
                                      offset, rs, log))
    ELSE Slice(vols, NoError, log)

\* the loop of GetVolumes after the slice request returned r
VolumesAfter(parent, vols, offset, rs, r) ==
    IF r.err # NoError
    THEN Slice(<<>>, r.err, r.log)
    ELSE GetVolumesFrom(parent, vols \o r.items, offset + Len(r.items),
                        Len(r.items), rs, r.log)

GetVolumes(parent, rs, log) ==
    GetVolumesFrom(parent, <<>>, 0, nsFilesystemListLimit, rs, log)

RECURSIVE GetFilesystemsFrom(_, _, _, _, _, _)
RECURSIVE FilesystemsAfter(_, _, _, _, _)
\* the loop of GetFilesystems, from its condition on
GetFilesystemsFrom(parent, filesystems, offset, lastResultCount, rs, log) ==
    IF lastResultCount >= nsFilesystemListLimit
    THEN FilesystemsAfter(parent, filesystems, offset, rs,
                          GetFilesystemsSlice(parent,
                                              nsFilesystemListLimit - 1,
                                              offset, rs, log))
    ELSE Slice(filesystems, NoError, log)

\* the loop of GetFilesystems after the slice request returned r
FilesystemsAfter(parent, filesystems, offset, rs, r) ==
    IF r.err # NoError
    THEN Slice(<<>>, r.err, r.log)
    ELSE GetFilesystemsFrom(parent, filesystems \o r.items,
                            offset + Len(r.items), Len(r.items), rs, r.log)

GetFilesystems(parent, rs, log) ==
    GetFilesystemsFrom(parent, <<>>, 0, nsFilesystemListLimit, rs, log)

\* the variables of the inner loop of GetFilesystemsWithStartingToken; broke
\* says that the loop has left through its break
Scan(filesystems, nextToken, found, broke) ==
    [filesystems |-> filesystems, nextToken |-> nextToken, found |-> found,
     broke |-> broke]

\* variant: every appended record becomes the next token
ScanAppended_TokenAlways(filesystems, nextToken, fs, limit) ==
    Scan(filesystems, fs.Path, TRUE, Len(filesystems) = limit)

\* the loop body after fs was appended: the break at the limit
ScanAppended(filesystems, nextToken, fs, limit) ==
    IF Len(filesystems) = limit
    THEN Scan(filesystems, fs.Path, TRUE, TRUE)
    ELSE Scan(filesystems, nextToken, TRUE, FALSE)

\* variant: the first record stands for the token when no record matches
ScanRecord_FoundOnAny(st, fs, startingToken, limit) ==
    IF st.broke
    THEN st
    ELSE IF st.found
         THEN ScanAppended(Append(st.filesystems, fs), st.nextToken, fs, limit)
         ELSE Scan(st.filesystems, st.nextToken, TRUE, FALSE)

\* the body of the inner loop for the record fs
ScanRecord(st, fs, startingToken, limit) ==
    IF st.broke
    THEN st
    ELSE IF st.found
         THEN ScanAppended(Append(st.filesystems, fs), st.nextToken, fs, limit)
         ELSE Scan(st.filesystems, st.nextToken, fs.Path = startingToken,
                   FALSE)

RECURSIVE ScanFrom(_, _, _, _, _, _)
\* for _, fs := range filesystemsSlice, for its records lo..hi, left at once
\* after a break; the range is walked in two halves, the second from the
\* state the first leaves
ScanFrom(slice, lo, hi, st, startingToken, limit) ==
    IF st.broke \/ lo > hi
    THEN st
    ELSE IF lo = hi
         THEN ScanRecord(st, slice[lo], startingToken, limit)
         ELSE ScanFrom(slice, (lo + hi) \div 2 + 1, hi,
                       ScanFrom(slice, lo, (lo + hi) \div 2, st,
                                startingToken, limit),
                       startingToken, limit)

\* variant: every slice is scanned as if the token were found
ScanSlice_TokenIgnored(slice, st, startingToken, limit) ==
    ScanFrom(slice, 1, Len(slice),
             Scan(st.filesystems, st.nextToken, TRUE, FALSE),
             startingToken, limit)

\* the inner loop over one slice: it starts with no break taken
ScanSlice(slice, st, startingToken, limit) ==
    ScanFrom(slice, 1, Len(slice),
             Scan(st.filesystems, st.nextToken, st.found, FALSE),
             startingToken, limit)

Page(items, nextToken, err, log) ==
    [items |-> items, nextToken |-> nextToken, err |-> err, log |-> log]

RECURSIVE TokenLoop(_, _, _, _, _, _, _, _)
RECURSIVE TokenLoopAfter(_, _, _, _, _, _, _)
\* the outer loop of GetFilesystemsWithStartingToken, from its condition on
TokenLoop(parent, startingToken, limit, st, offset, lastResultCount, rs, log) ==
    IF (limit = 0 \/ Len(st.filesystems) < limit)
           /\ lastResultCount >= nsFilesystemListLimit
    THEN TokenLoopAfter(parent, startingToken, limit, st, offset, rs,
                        GetFilesystemsSlice(parent, nsFilesystemListLimit - 1,
                                            offset, rs, log))
    ELSE Page(st.filesystems, st.nextToken, NoError, log)

\* variant: a slice request that failed counts as an empty slice
TokenLoopAfter_ErrorDropped(parent, startingToken, limit, st, offset, rs, r) ==
    IF r.err # NoError
    THEN TokenLoop(parent, startingToken, limit, st, offset, 0, rs, r.log)
    ELSE TokenLoop(parent, startingToken, limit,
                   ScanSlice(r.items, st, startingToken, limit),
                   offset + Len(r.items), Len(r.items), rs, r.log)

\* that loop after the slice request returned r
TokenLoopAfter(parent, startingToken, limit, st, offset, rs, r) ==
    IF r.err # NoError
    THEN Page(<<>>, "", r.err, r.log)
    ELSE TokenLoop(parent, startingToken, limit,
                   ScanSlice(r.items, st, startingToken, limit),
                   offset + Len(r.items), Len(r.items), rs, r.log)

\* variant: the empty token is looked for like any other
StartingTokenFound_Never(startingToken) == FALSE

\* startingTokenFound before the loop: an empty token is found at once
StartingTokenFound(startingToken) == startingToken = ""

GetFilesystemsWithStartingToken(parent, startingToken, limit, rs, log) ==
    TokenLoop(parent, startingToken, limit,
              Scan(<<>>, "", StartingTokenFound(startingToken), FALSE),
              0, nsFilesystemListLimit, rs, log)

----------------------------------------------------------------------------
(* Calls of the slice and list methods. *)

\* bound: the largest collection of the pagination specification
MaxItems == 101

Volume(i) ==
    [Path |-> "pool-a/vg/vol-" \o ToString(i),
     BytesAvailable |-> 10 + i,
     BytesUsed |-> i,
     VolumeSize |-> 100]

MkVolumes(n) == [i \in 1..n |-> Volume(i)]

ListSizes == {0, 2, 5} \cup ((nsFilesystemListLimit - 2)..MaxItems)

\* "p/L/c" names the project; "p/c" has too few components
Parents == {<<"p", "/", "L", "/", "c">>, <<"p", "/", "c">>}

VolumeParents == {"pool-a/vg", ""}

Limits ==
    {-1, 0, 1, 2, 5, nsFilesystemListLimit - 1, nsFilesystemListLimit,
     nsFilesystemListLimit + 1}

Offsets == {-1, 0, 1, 3, nsFilesystemListLimit - 2, nsFilesystemListLimit}

Tokens ==
    {"", "NOT_EXISTING"}
        \cup {Share_v1(i).Path : i \in {1, 2, 5, nsFilesystemListLimit - 1}}

ServerError == Outcome("reply", 500, ObjectBody("ENOENT", "failed"))

EmptyReply == Outcome("reply", 200, EmptyBody)

\* what the wire does with the Sends of a list call
ListOutcomes ==
    {<<>>, <<DoError>>, <<ServerError>>, <<EmptyReply>>, <<Expired>>,
     <<Expired, Expired>>, <<Expired, DoError>>}

CallGetFilesystemsSlice ==
    /\ pc = "idle"
    /\ \E parent \in Parents, limit \in Limits, offset \in Offsets,
          rs \in ListOutcomes :
          /\ call' = [op |-> "GetFilesystemsSlice", parent |-> parent,
                      limit |-> limit, offset |-> offset, token |-> ""]
          /\ Returns(GetFilesystemsSlice(parent, limit, offset, rs, <<>>))
    /\ pc' = "done"
    /\ UNCHANGED <<shares, volumes, snapshots, collected>>
    /\ UNCHANGED <<client, goroutines>>

CallGetVolumesSlice ==
    /\ pc = "idle"
    /\ \E parent \in VolumeParents, limit \in Limits, offset \in Offsets,
          rs \in ListOutcomes :
          /\ call' = [op |-> "GetVolumesSlice", parent |-> parent,
                      limit |-> limit, offset |-> offset, token |-> ""]
          /\ Returns(GetVolumesSlice(parent, limit, offset, rs, <<>>))
    /\ pc' = "done"
    /\ UNCHANGED <<shares, volumes, snapshots, collected>>
    /\ UNCHANGED <<client, goroutines>>

CallGetFilesystems ==
    /\ pc = "idle"
    /\ \E parent \in Parents, rs \in ListOutcomes :
          /\ call' = [op |-> "GetFilesystems", parent |-> parent,
                      limit |-> 0, offset |-> 0, token |-> ""]
          /\ Returns(GetFilesystems(parent, rs, <<>>))
    /\ pc' = "done"
    /\ UNCHANGED <<shares, volumes, snapshots, collected>>
    /\ UNCHANGED <<client, goroutines>>

CallGetVolumes ==
    /\ pc = "idle"
    /\ \E parent \in VolumeParents, rs \in ListOutcomes :
          /\ call' = [op |-> "GetVolumes", parent |-> parent,
                      limit |-> 0, offset |-> 0, token |-> ""]
          /\ Returns(GetVolumes(parent, rs, <<>>))
    /\ pc' = "done"
    /\ UNCHANGED <<shares, volumes, snapshots, collected>>
    /\ UNCHANGED <<client, goroutines>>

CallGetFilesystemsWithStartingToken ==
    /\ pc = "idle"
    /\ \E parent \in Parents, token \in Tokens, limit \in Limits,
          rs \in ListOutcomes :
          /\ call' = [op |-> "GetFilesystemsWithStartingToken",
                      parent |-> parent, limit |-> limit, offset |-> 0,
                      token |-> token, start |-> token]
          /\ Returns(GetFilesystemsWithStartingToken(parent, token, limit,
                                                     rs, <<>>))
    /\ pc' = "done"
    /\ UNCHANGED <<shares, volumes, snapshots, collected>>
    /\ UNCHANGED <<client, goroutines>>

\* the caller walks on: it keeps the page it got and asks for the page after
\* the token that came with it
CallNextPage ==
    /\ pc = "done"
    /\ call.op = "GetFilesystemsWithStartingToken"
    /\ ret.err = NoError
    /\ ret.nextToken # ""
    /\ \E rs \in ListOutcomes :
          /\ call' = [call EXCEPT !.token = ret.nextToken]
          /\ Returns(GetFilesystemsWithStartingToken(call.parent,
                                                     ret.nextToken,
                                                     call.limit, rs, <<>>))
    /\ collected' = collected \o ret.items
    /\ pc' = "done"
    /\ UNCHANGED <<shares, volumes, snapshots>>
    /\ UNCHANGED <<client, goroutines>>

InitList ==
    /\ \E n \in ListSizes : shares = MkShares(n) /\ volumes = MkVolumes(n)
    /\ snapshots = <<>>
    /\ collected = <<>>
    /\ pc = "idle"
    /\ call = NoCall
    /\ ret = NoReturn
    /\ sent = <<>>
    /\ client = NoClient /\ goroutines = NoGoroutines

NextList ==
    \/ CallGetFilesystemsSlice
    \/ CallGetVolumesSlice
    \/ CallGetFilesystems
    \/ CallGetVolumes
    \/ CallGetFilesystemsWithStartingToken
    \/ CallNextPage
    \/ Return

SpecList == InitList /\ [][NextList]_vars

----------------------------------------------------------------------------
(* A walk over a collection that loses the filesystem the caller's token   *)
(* names.                                                                  *)

\* between two calls of the walk another client of the appliance destroys
\* the filesystem that the nextToken in the caller's hands names; the
\* collection loses one filesystem, the first it loses and one that Tokens
\* names
TokenFilesystemDestroyed ==
    /\ pc = "done"
    /\ shares = MkShares(Len(shares))
    /\ ret.nextToken \in Tokens
    /\ call.op = "GetFilesystemsWithStartingToken"
    /\ ret.err = NoError
    /\ ret.nextToken # ""
    /\ \E i \in 1..Len(shares) : shares[i].Path = ret.nextToken
    /\ shares' = SelectSeq(shares, LAMBDA share : share.Path # ret.nextToken)
    /\ UNCHANGED <<volumes, snapshots, collected, pc, call, ret, sent>>
    /\ UNCHANGED <<client, goroutines>>

NextWalk ==
    \/ CallGetFilesystemsWithStartingToken
    \/ TokenFilesystemDestroyed
    \/ CallNextPage
    \/ Return

SpecWalk == InitList /\ [][NextWalk]_vars

----------------------------------------------------------------------------
(* The list loops, one slice request a step.  call holds the variables of  *)
(* the loop and turns, the slice requests made so far.                     *)

\* bound: the most turns of a list loop that are followed
MaxTurns == 3

ListLoops == {"GetFilesystems", "GetVolumes", "GetFilesystemsWithStartingToken"}

\* variant: the loops run until the limit is reached, whatever the last
\* slice held
LoopRuns_UntilLimit(op, limit, st, lastResultCount) ==
    op = "GetFilesystemsWithStartingToken" =>
        (limit = 0 \/ Len(st.filesystems) < limit)

\* the condition of the loop of GetVolumes, GetFilesystems and
\* GetFilesystemsWithStartingToken
LoopRuns(op, limit, st, lastResultCount) ==
    /\ op = "GetFilesystemsWithStartingToken" =>
          (limit = 0 \/ Len(st.filesystems) < limit)
    /\ lastResultCount >= nsFilesystemListLimit

\* the slice request of the loop of op
LoopSlice(op, parent, offset, rs) ==
    IF op = "GetVolumes"
    THEN GetVolumesSlice(parent, nsFilesystemListLimit - 1, offset, rs, <<>>)
    ELSE GetFilesystemsSlice(parent, nsFilesystemListLimit - 1, offset, rs,
                             <<>>)

\* the body of the loop of op over the slice
LoopScan(op, slice, st, startingToken, limit) ==
    IF op = "GetFilesystemsWithStartingToken"
    THEN ScanSlice(slice, st, startingToken, limit)
    ELSE [st EXCEPT !.filesystems = @ \o slice]

\* the method is called: the variables of the loop before the loop
EnterLoop ==
    /\ pc = "idle"
    /\ \E op \in ListLoops, token \in Tokens, limit \in Limits :
        \E parent \in IF op = "GetVolumes" THEN VolumeParents ELSE Parents :
          /\ op # "GetFilesystemsWithStartingToken" => token = "" /\ limit = 0
          /\ call' = [op |-> op, parent |-> parent, token |-> token,
                      limit |-> limit,
                      st |-> Scan(<<>>, "", StartingTokenFound(token), FALSE),
                      offset |-> 0,
                      lastResultCount |-> nsFilesystemListLimit,
                      turns |-> 0]
    /\ pc' = "looping"
    /\ UNCHANGED <<shares, volumes, snapshots, collected, ret, sent>>
    /\ UNCHANGED <<client, goroutines>>

\* the loop after its slice request returned r
AfterLoopSlice(r) ==
    /\ sent' = sent \o r.log
    /\ IF r.err # NoError
       THEN /\ ret' = [items |-> <<>>, nextToken |-> "", err |-> r.err]
            /\ pc' = "done"
            /\ call' = [call EXCEPT !.turns = @ + 1]
       ELSE /\ call' = [call EXCEPT
                           !.st = LoopScan(call.op, r.items, call.st,
                                           call.token, call.limit),
                           !.offset = @ + Len(r.items),
                           !.lastResultCount = Len(r.items),
                           !.turns = @ + 1]
            /\ UNCHANGED <<pc, ret>>

\* one turn of the loop
LoopTurn ==
    /\ pc = "looping"
    /\ call.turns < MaxTurns
    /\ LoopRuns(call.op, call.limit, call.st, call.lastResultCount)
    /\ \E rs \in ListOutcomes :
          \E r \in {LoopSlice(call.op, call.parent, call.offset, rs)} :
              AfterLoopSlice(r)
    /\ UNCHANGED <<shares, volumes, snapshots, collected>>
    /\ UNCHANGED <<client, goroutines>>

\* the loop ends and the method returns
LeaveLoop ==
    /\ pc = "looping"
    /\ ~LoopRuns(call.op, call.limit, call.st, call.lastResultCount)
    /\ ret' = [items |-> call.st.filesystems, nextToken |-> call.st.nextToken,
               err |-> NoError]
    /\ pc' = "done"
    /\ UNCHANGED <<shares, volumes, snapshots, collected, call, sent>>
    /\ UNCHANGED <<client, goroutines>>

NextLoop ==
    \/ EnterLoop
    \/ LoopTurn
    \/ LeaveLoop
    \/ Return

\* the goroutine that runs the loop keeps running, and every request of it
\* returns: the transport has a timeout
SpecLoop ==
    InitList /\ [][NextLoop]_vars /\ WF_vars(LoopTurn) /\ WF_vars(LeaveLoop)

----------------------------------------------------------------------------
(* Properties of the Slice Fetcher and the Cursor Pagination Emulator. *)

\* C7: a slice method called with limit <= 0, limit >= the list limit or
\* offset < 0 returns a validation error and sends nothing; with limit and
\* offset in range it does not fail on them.
C7_SliceBoundsChecked ==
    (pc = "done" /\ call.op \in {"GetFilesystemsSlice", "GetVolumesSlice"}) =>
        IF call.limit <= 0 \/ call.limit >= 100 \/ call.offset < 0
        THEN /\ ret.err.type = "validation"
             /\ ret.err.prefix \in {"limit", "offset"}
             /\ ret.items = <<>>
             /\ sent = <<>>
        ELSE /\ ret.err.type = "validation" => ret.err.prefix = "parent"
             /\ call.op = "GetVolumesSlice" => sent # <<>>

C7_Witness ==
    /\ pc = "done" /\ call.op = "GetVolumesSlice"
    /\ call.limit = 100 /\ call.offset = 0
    /\ ret.err.type = "validation"
    /\ sent = <<>>

\* the records of the window [offset, offset + limit) that a collection of
\* n records has
WindowSize(n, limit, offset) ==
    IF Min(offset + limit, n) > offset
    THEN Min(offset + limit, n) - offset
    ELSE 0

\* C8: for limit in range and offset >= 0, GetFilesystemsSlice returns the
\* records offset .. min(offset + limit, n) - 1 of the collection, in order:
\* at most limit of them, and fewer only when the collection ends inside the
\* window.
C8_SliceIsWindow ==
    (/\ pc = "done" /\ call.op = "GetFilesystemsSlice"
     /\ call.limit \in 1..99 /\ call.offset >= 0
     /\ ret.err = NoError) =>
        /\ Len(ret.items) = WindowSize(Len(shares), call.limit, call.offset)
        /\ \A k \in 1..Len(ret.items) :
              /\ ret.items[k].Path = shares[call.offset + k].Path
              /\ ret.items[k].MountPoint = shares[call.offset + k].MountPoint
        /\ Len(ret.items) <= call.limit
        /\ Len(ret.items) < call.limit =>
              call.offset + call.limit > Len(shares)

C8_Witness ==
    /\ pc = "done" /\ call.op = "GetFilesystemsSlice"
    /\ call.limit = 5 /\ call.offset = 3
    /\ Len(shares) = 5
    /\ Len(ret.items) = 2
    /\ ret.items[1].Path = shares[4].Path

\* C9: GetFilesystems and GetVolumes return the records of the collection,
\* each once and in order, whatever its size.
C9_ListAllIsWholeCollection ==
    (/\ pc = "done" /\ call.op \in {"GetFilesystems", "GetVolumes"}
     /\ ret.err = NoError) =>
        LET collection == IF call.op = "GetFilesystems" THEN shares ELSE volumes
        IN /\ Len(ret.items) = Len(collection)
           /\ \A i \in 1..Len(ret.items) : ret.items[i].Path = collection[i].Path

\* C10: with the empty token and a limit > 0, GetFilesystemsWithStartingToken
\* returns the first min(limit, n) records of what GetFilesystems returns for
\* the parent, n of them in all, in the same order.
C10_EmptyTokenIsPrefixOfListAll ==
    (/\ pc = "done" /\ call.op = "GetFilesystemsWithStartingToken"
     /\ call.token = "" /\ call.limit > 0
     /\ ret.err = NoError) =>
        LET all == GetFilesystems(call.parent, <<>>, <<>>).items
        IN /\ Len(ret.items) = Min(call.limit, Len(all))
           /\ \A i \in 1..Len(ret.items) : ret.items[i] = all[i]

C10_Witness ==
    /\ pc = "done" /\ call.op = "GetFilesystemsWithStartingToken"
    /\ call.token = "" /\ call.limit = 5
    /\ Len(shares) = 98
    /\ Len(ret.items) = 5
    /\ ret.items[5].Path = shares[5].Path
    /\ ret.nextToken = shares[5].Path

----------------------------------------------------------------------------
(* Properties of the token walk. *)

\* a call of GetFilesystemsWithStartingToken has returned without an error
PageReturned ==
    /\ pc = "done" /\ call.op = "GetFilesystemsWithStartingToken"
    /\ ret.err = NoError

\* the position of the share with the path token in the collection, 0 when
\* there is none
PositionOf(token) ==
    IF \E i \in 1..Len(shares) : shares[i].Path = token
    THEN CHOOSE i \in 1..Len(shares) : shares[i].Path = token
    ELSE 0

\* the items and the shares are the same records in the same order
SameItems(items, list) ==
    /\ Len(items) = Len(list)
    /\ \A i \in 1..Len(items) : items[i].Path = list[i].Path

\* C11: a walk that starts with the empty token and a limit > 0, feeds each
\* nextToken into the next call and ends at the empty nextToken has collected
\* the whole collection, every share once and in order.
C11_WalkIsWholeCollection ==
    (PageReturned /\ call.start = "" /\ call.limit > 0 /\ ret.nextToken = "") =>
        SameItems(collected \o ret.items, shares)

\* C12: a non-empty token that is the path of no share of the parent's
\* collection gives zero items, an empty nextToken and, when the appliance
\* serves the requests, no error, whatever the limit; the path of the first
\* share as the token gives the shares after the first.
C12_UnknownTokenGivesNothing ==
    (pc = "done" /\ call.op = "GetFilesystemsWithStartingToken"
        /\ collected = <<>>) =>
        /\ (call.token # "" /\ PositionOf(call.token) = 0) =>
              /\ (/\ Len(Split(call.parent, "/")) = 3
                  /\ \A i \in 1..Len(sent) :
                        sent[i].status = 200 /\ sent[i].body.kind = "array") =>
                    ret.err = NoError
              /\ ret.err = NoError =>
                    ret.items = <<>> /\ ret.nextToken = ""
        /\ (PageReturned /\ PositionOf(call.token) = 1 /\ call.limit >= 0
                /\ Len(shares) >= 2) =>
              /\ ret.items # <<>>
              /\ ret.items[1].Path = shares[2].Path

C12_Witness ==
    /\ PageReturned
    /\ call.token = "NOT_EXISTING" /\ call.limit = 1
    /\ Len(shares) = 5
    /\ Len(sent) = 1
    /\ ret.items = <<>> /\ ret.nextToken = ""

\* C13: with limit 0 the call returns every share of the collection that
\* follows the token, all of them for the empty token, and an empty
\* nextToken.
C13_NoLimitGivesTheRest ==
    (PageReturned /\ call.limit = 0 /\ collected = <<>>
        /\ (call.token = "" \/ PositionOf(call.token) > 0)) =>
        /\ SameItems(ret.items,
                     SubSeq(shares, PositionOf(call.token) + 1, Len(shares)))
        /\ ret.nextToken = ""

\* C14: nextToken is the path of the last item when exactly limit items were
\* collected, and empty when fewer were or when limit is 0; a nextToken that
\* is not empty is the path of the last item of the page.
C14_NextTokenIsLastOfFullPage ==
    PageReturned =>
        /\ (call.limit > 0 /\ Len(ret.items) = call.limit) =>
              ret.nextToken = ret.items[call.limit].Path
        /\ (call.limit = 0 \/ Len(ret.items) < call.limit) =>
              ret.nextToken = ""
        /\ ret.nextToken # "" =>
              /\ ret.items # <<>>
              /\ ret.nextToken = ret.items[Len(ret.items)].Path

C14_Witness ==
    /\ PageReturned
    /\ call.token = Share_v1(5).Path /\ call.limit = 5
    /\ Len(shares) = 98
    /\ Len(ret.items) = 5
    /\ ret.nextToken = Share_v1(10).Path

----------------------------------------------------------------------------
(* Filesystems: get and destroy. *)

\* the Share_v2 that sendRequestWithStruct left in the receiver; a receiver
\* that was not written holds the zero value
ShareOf(value) ==
    IF value.items # <<>>
    THEN value.items[1]
    ELSE [Path |-> "", MountPoint |-> "", ShareName |-> "", ShareNfs |-> "",
          ShareSmb |-> "", AvailableSize |-> 0, TotalSize |-> 0,
          QuotaSize |-> 0]

Share_v2toFilesystem(share) ==
    [Path |-> share.Path,
     MountPoint |-> share.MountPoint,
     BytesAvailable |-> share.AvailableSize,
     BytesUsed |-> share.TotalSize,
     SharedOverNfs |-> share.ShareNfs # "off",
     SharedOverSmb |-> share.ShareSmb # "off",
     QuotaSize |-> share.QuotaSize]

\* the zero Filesystem
NoFilesystem ==
    [Path |-> "", MountPoint |-> "", BytesAvailable |-> 0, BytesUsed |-> 0,
     SharedOverNfs |-> FALSE, SharedOverSmb |-> FALSE, QuotaSize |-> 0]

Got(filesystem, err, log) ==
    [filesystem |-> filesystem, err |-> err, log |-> log]

\* variant: the error of the request is dropped
FilesystemOfShare_ErrorDropped(r) ==
    Got(Share_v2toFilesystem(ShareOf(r.value)), NoError, r.log)

\* GetFilesystem after getShare returned r
FilesystemOfShare(r) ==
    IF r.err # NoError
    THEN Got(NoFilesystem, r.err, r.log)
    ELSE Got(Share_v2toFilesystem(ShareOf(r.value)), NoError, r.log)

GetFilesystem(path, rs, log) ==
    IF path = ""
    THEN Got(NoFilesystem, ValidationError("path"), log)
    ELSE FilesystemOfShare(sendRequestWithStruct(Endpoint("getShare"),
                                                 <<path>>, "struct", rs, log))

DestroyFilesystemParams(DestroySnapshots, PromoteMostRecentCloneIfExists) ==
    [DestroySnapshots |-> DestroySnapshots,
     PromoteMostRecentCloneIfExists |-> PromoteMostRecentCloneIfExists]

\* variant: Promote is marshalled before ErrorIfNotFound
DeleteShareParams_PromoteThird(Path, Recursive, ErrorIfNotFound, Promote) ==
    <<Path, Recursive, Promote, ErrorIfNotFound>>

\* DeleteShareParams.MarshalJSON: the positional list
DeleteShareParams(Path, Recursive, ErrorIfNotFound, Promote) ==
    <<Path, Recursive, ErrorIfNotFound, Promote>>

\* variant: the snapshots are always destroyed with the filesystem
DestroyFilesystem_AlwaysRecursive(path, params, rs, log) ==
    sendRequest(Endpoint("deleteShare"),
                DeleteShareParams(path, TRUE, FALSE,
                                  params.PromoteMostRecentCloneIfExists),
                rs, log)

\* variant: no clone is ever promoted
DestroyFilesystem_NeverPromote(path, params, rs, log) ==
    sendRequest(Endpoint("deleteShare"),
                DeleteShareParams(path, params.DestroySnapshots, FALSE, FALSE),
                rs, log)

DestroyFilesystem(path, params, rs, log) ==
    sendRequest(Endpoint("deleteShare"),
                DeleteShareParams(path, params.DestroySnapshots, FALSE,
                                  params.PromoteMostRecentCloneIfExists),
                rs, log)

----------------------------------------------------------------------------
(* Calls of get and destroy on a source filesystem, its snapshots and the  *)
(* clones of them.                                                         *)

\* bound: the most clones the source filesystem's snapshots have
MaxClones == 2

\* bound: the most snapshots the source filesystem has
MaxSnapshots == 2

\* Snapshot: Parent owns it, Clones are the filesystems cloned from it, in
\* the order of their creation
Snapshot(Name, Parent, Clones) ==
    [Name |-> Name, Parent |-> Parent, Clones |-> Clones]

\* the snapshots s-1 .. s-n of share 1; share i + 1 is a clone of snapshot
\* origin[i], and no clone when origin[i] = 0
MkSnapshots(n, origin) ==
    [k \in 1..n |->
        Snapshot("s-" \o ToString(k), Share_v1(1).Path,
                 [j \in 1..Cardinality({i \in DOMAIN origin : origin[i] = k})
                     |-> Share_v1(1 + CHOOSE i \in DOMAIN origin :
                                     /\ origin[i] = k
                                     /\ Cardinality({h \in DOMAIN origin :
                                            origin[h] = k /\ h <= i}) = j).Path])]

\* the state of the Destroy Orchestrator's state machine a path is in
DependencyState(path) ==
    IF ~HasShare(path)
    THEN "destroyed"
    ELSE IF SnapshotsOf(path) = <<>>
         THEN "no-deps"
         ELSE IF ClonesOf(path) = {}
              THEN "has-snapshots"
              ELSE "has-snapshots-with-clones"

FilesystemPaths == {Share_v1(i).Path : i \in 1..(MaxClones + 1)} \cup {""}

DestroyOutcomes ==
    {<<>>, <<DoError>>, <<ServerError>>, <<Expired>>, <<Expired, Expired>>,
     <<Expired, ServerError>>}

\* call.before keeps the state the path was in when the call was made, and
\* call.wire what the wire did with the Sends of the call
CallDestroyFilesystem ==
    /\ pc = "idle"
    /\ \E path \in FilesystemPaths, ds \in BOOLEAN, promote \in BOOLEAN,
          rs \in DestroyOutcomes :
          /\ call' = [op |-> "DestroyFilesystem", path |-> path,
                      params |-> DestroyFilesystemParams(ds, promote),
                      before |-> DependencyState(path), wire |-> rs]
          /\ Returns(DestroyFilesystem(path,
                                       DestroyFilesystemParams(ds, promote),
                                       rs, <<>>))
          /\ ApplianceServes(DestroyFilesystem(
                                 path, DestroyFilesystemParams(ds, promote),
                                 rs, <<>>).log,
                             rs)
    /\ pc' = "done"
    /\ UNCHANGED <<volumes, collected>>
    /\ UNCHANGED <<client, goroutines>>

CallGetFilesystem ==
    /\ pc = "idle"
    /\ \E path \in FilesystemPaths, rs \in DestroyOutcomes :
          /\ call' = [op |-> "GetFilesystem", path |-> path,
                      before |-> DependencyState(path), wire |-> rs]
          /\ Returns(GetFilesystem(path, rs, <<>>))
    /\ pc' = "done"
    /\ UNCHANGED <<shares, volumes, snapshots, collected>>
    /\ UNCHANGED <<client, goroutines>>

InitDestroy ==
    /\ \E c \in 0..MaxClones, n \in 0..MaxSnapshots :
          \E origin \in [1..c -> 0..n] :
              /\ shares = MkShares(1 + c)
              /\ snapshots = MkSnapshots(n, origin)
    /\ volumes = <<>>
    /\ collected = <<>>
    /\ pc = "idle"
    /\ call = NoCall
    /\ ret = NoReturn
    /\ sent = <<>>
    /\ client = NoClient /\ goroutines = NoGoroutines

NextDestroy ==
    \/ CallDestroyFilesystem
    \/ CallGetFilesystem
    \/ CallGetFilesystems
    \/ Return

SpecDestroy == InitDestroy /\ [][NextDestroy]_vars

----------------------------------------------------------------------------
(* Properties of destroy. *)

\* the call that has returned went to the appliance, which answered its
\* last Send, a request of the method
Answered(op, uri) ==
    /\ pc = "done"
    /\ call.op = op
    /\ sent # <<>>
    /\ sent[Len(sent)].path.uri = uri
    /\ OutcomeAt(call.wire, Len(sent)).kind = "served"

IsInUse(err) == err.type = "nef" /\ err.code = InUseCode

IsNotFound(err) == err.type = "nef" /\ err.code = NotFoundCode

\* the step is a destroy that the dependencies of the filesystem forbid
DestroyForbidden ==
    /\ pc = "idle"
    /\ pc' = "done"
    /\ call'.op = "DestroyFilesystem"
    /\ \/ /\ call'.before \in {"has-snapshots", "has-snapshots-with-clones"}
          /\ ~call'.params.DestroySnapshots
       \/ /\ call'.before = "has-snapshots-with-clones"
          /\ ~call'.params.PromoteMostRecentCloneIfExists

\* C15: a destroy of a filesystem that has snapshots, without
\* destroySnapshots, and a destroy of a filesystem whose snapshots have
\* clones, without promoteMostRecentClone, leaves the filesystems and the
\* snapshots of the appliance as they were, and the appliance's answer to it
\* is returned as an in-use error
C15_DestroyRefusedInUse ==
    [][DestroyForbidden
          => /\ shares' = shares
             /\ snapshots' = snapshots
             /\ Answered("DestroyFilesystem", "deleteShare")'
                   => IsInUse(ret'.err)]_vars

\* a destroy with destroySnapshots of a filesystem whose snapshot has clones
\* was refused, after its session had expired and it was sent again
C15_Witness ==
    /\ Answered("DestroyFilesystem", "deleteShare")
    /\ call.before = "has-snapshots-with-clones"
    /\ call.params.DestroySnapshots
    /\ ~call.params.PromoteMostRecentCloneIfExists
    /\ call.wire = <<Expired>>
    /\ IsInUse(ret.err)
    /\ DependencyState(call.path) = "has-snapshots-with-clones"

\* the call that has returned is a destroy with destroySnapshots of the
\* filesystem, which had no clones, and the appliance answered it with
\* success
DestroySucceeded(path) ==
    /\ Answered("DestroyFilesystem", "deleteShare")
    /\ call.path = path
    /\ call.params.DestroySnapshots
    /\ call.before \in {"no-deps", "has-snapshots"}
    /\ ret.err = NoError

\* what holds of a destroyed filesystem: it has no snapshots, a get of it
\* that the appliance answers fails with not-found, and a list-all that
\* succeeds does not contain it
Gone(path) ==
    /\ SnapshotsOf(path) = <<>>
    /\ Answered("GetFilesystem", "getShare") /\ call.path = path
          => IsNotFound(ret.err)
    /\ pc = "done" /\ call.op = "GetFilesystems" /\ ret.err = NoError
          => \A i \in 1..Len(ret.items) : ret.items[i].Path # path

\* C16: once a destroy with destroySnapshots has succeeded on a filesystem
\* that had no dependencies, or snapshots and no clones, the filesystem and
\* its snapshots are gone: every later get of the path fails with not-found
\* and every later list-all of the parent is without the path
C16_DestroyedIsGone ==
    \A path \in FilesystemPaths \ {""} :
        [](DestroySucceeded(path) => []Gone(path))

\* a get of the source filesystem fails with not-found after the filesystem
\* was destroyed
C16_Witness ==
    /\ Answered("GetFilesystem", "getShare")
    /\ call.path = Share_v1(1).Path
    /\ call.wire = <<>>
    /\ ~HasShare(call.path)
    /\ IsNotFound(ret.err)

\* the step is a destroy, with destroySnapshots and promoteMostRecentClone, of
\* a filesystem whose snapshots have clones, and the appliance answers it
DestroyWithPromotion ==
    /\ pc = "idle"
    /\ Answered("DestroyFilesystem", "deleteShare")'
    /\ call'.before = "has-snapshots-with-clones"
    /\ call'.params.DestroySnapshots
    /\ call'.params.PromoteMostRecentCloneIfExists

\* a snapshot of this name with this parent
HasSnapshot(name, parent) ==
    \E k \in 1..Len(snapshots) :
        snapshots[k].Name = name /\ snapshots[k].Parent = parent

\* the filesystem is a clone of a snapshot that the parent owns
ReferencesChainOf(clone, parent) ==
    \E k \in 1..Len(snapshots) :
        /\ snapshots[k].Parent = parent
        /\ \E j \in 1..Len(snapshots[k].Clones) : snapshots[k].Clones[j] = clone

\* a get of a filesystem the appliance holds returns the filesystem
Retrievable ==
    Answered("GetFilesystem", "getShare") /\ HasShare(call.path)
        => ret.err = NoError /\ ret.filesystem.Path = call.path

\* C17: a destroy with destroySnapshots and promoteMostRecentClone of a
\* filesystem whose snapshots have clones succeeds; after it the source is
\* gone, the clone created last is held by the appliance and owns every
\* snapshot the source owned, every older clone is held and still a clone of
\* a snapshot of that chain; and a filesystem that is held is retrievable
C17_DestroyPromotesMostRecentClone ==
    /\ [][DestroyWithPromotion
             => \E path \in FilesystemPaths, recent \in FilesystemPaths :
                   /\ path = call'.path
                   /\ recent = MostRecentClone(path)
                   /\ ret'.err = NoError
                   /\ ~HasShare(path)'
                   /\ HasShare(recent)'
                   /\ \A k \in 1..Len(snapshots) :
                         snapshots[k].Parent = path
                            => HasSnapshot(snapshots[k].Name, recent)'
                   /\ Len(snapshots') = Len(snapshots)
                   /\ \A older \in ClonesOf(path) \ {recent} :
                         /\ HasShare(older)'
                         /\ ReferencesChainOf(older, recent)']_vars
    /\ []Retrievable

\* the source filesystem was destroyed, the clone created last owns its
\* snapshot and the older clone is still a clone of that snapshot
C17_Witness ==
    /\ Answered("DestroyFilesystem", "deleteShare")
    /\ call.before = "has-snapshots-with-clones"
    /\ call.params.DestroySnapshots
    /\ call.params.PromoteMostRecentCloneIfExists
    /\ call.path = Share_v1(1).Path
    /\ ret.err = NoError
    /\ Len(shares) = 2
    /\ HasSnapshot("s-1", Share_v1(3).Path)
    /\ ReferencesChainOf(Share_v1(2).Path, Share_v1(3).Path)

----------------------------------------------------------------------------
(* iSCSI targets, target groups and LUN mappings. *)

\* GetNefErrorCode(err) == "EEXIST"; false of the nil error
IsAlreadyExistNefError(err) == err.type = "nef" /\ err.code = AlreadyExistsCode

\* url.PathEscape on the names of the target groups: "/" is escaped, letters,
\* digits and "-" are kept
PathEscape(name) ==
    CASE name = "tg/1" -> "tg%2F1"
      [] OTHER -> name

CreateISCSITargetParams(Name, Portals) == [name |-> Name, portals |-> Portals]

CreateTargetGroupParams(Name, Members) == [name |-> Name, members |-> Members]

UpdateTargetGroupParams(Members) == [members |-> Members]

CreateLunMappingParams(hostGroup, volume, targetGroup) ==
    [hostGroup |-> hostGroup, volume |-> volume, targetGroup |-> targetGroup]

\* if !IsAlreadyExistNefError(err) { return err }; return nil
Created(r) ==
    IF ~IsAlreadyExistNefError(r.err)
    THEN r
    ELSE [err |-> NoError, log |-> r.log]

CreateISCSITarget(params, rs, log) ==
    IF params.name = ""
    THEN [err |-> ValidationError("Name"), log |-> log]
    ELSE Created(sendRequest(Endpoint("/san/iscsi/targets"), params, rs, log))

\* variant: an existing target group is left as it is
TargetGroupCreated_NoUpdate(params, rs, r) ==
    Created(r)

\* CreateUpdateTargetGroup after the create request returned r
TargetGroupCreated(params, rs, r) ==
    IF r.err # NoError
    THEN IF ~IsAlreadyExistNefError(r.err)
         THEN r
         ELSE sendRequest(Endpoint("/san/targetgroups/"
                                       \o PathEscape(params.name)),
                          UpdateTargetGroupParams(params.members), rs, r.log)
    ELSE [err |-> NoError, log |-> r.log]

CreateUpdateTargetGroup(params, rs, log) ==
    IF params.name = "" \/ Len(params.members) = 0
    THEN [err |-> ValidationError("Name, Members"), log |-> log]
    ELSE TargetGroupCreated(params, rs,
                            sendRequest(Endpoint("/san/targetgroups"), params,
                                        rs, log))

CreateLunMapping(params, rs, log) ==
    IF params.hostGroup = "" \/ params.volume = "" \/ params.targetGroup = ""
    THEN [err |-> ValidationError("HostGroup, Volume, TargetGroup"),
          log |-> log]
    ELSE Created(sendRequest(Endpoint("/san/lunMappings"), params, rs, log))

----------------------------------------------------------------------------
(* NFS and SMB shares. *)

NfsRuleList(Etype, Entity, Mask) ==
    [etype |-> Etype, entity |-> Entity, mask |-> Mask]

CreateNfsShareParams(Filesystem, ReadWriteList, ReadOnlyList) ==
    [filesystem |-> Filesystem, readWriteList |-> ReadWriteList,
     readOnlyList |-> ReadOnlyList]

CreateSmbShareParams(Filesystem, ShareName, ReadWriteList, ReadOnlyList) ==
    [filesystem |-> Filesystem, shareName |-> ShareName,
     readWriteList |-> ReadWriteList, readOnlyList |-> ReadOnlyList]

\* NfsShare.MarshalJSON
NfsShare(Path, Enabled) == <<Path, Enabled>>

\* SetNfsParams.MarshalJSON, SetSmbParams.MarshalJSON
SetAclParams(Path, Acl) == <<Path, Acl>>

\* SmbShare.MarshalJSON
SmbShare(Path, Enabled, Name, Guest) == <<Path, Enabled, Name, Guest>>

\* the host of an ACL: the entity of an FQDN rule, the entity of an IP rule
\* with its mask when there is one
AclHost(rule) ==
    IF rule.etype = "fqdn" \/ rule.etype = "domain"
    THEN rule.entity
    ELSE IF rule.mask > 0
         THEN rule.entity \o "/" \o ToString(rule.mask)
         ELSE rule.entity

AclType(rule) ==
    IF rule.etype = "fqdn" \/ rule.etype = "domain" THEN "FQDN" ELSE "IP"

NfsAcl(rule, accessMode) ==
    [hostType |-> AclType(rule), host |-> AclHost(rule),
     accessMode |-> accessMode, rootAccessForNFS |-> TRUE]

SmbAcl(rule, accessMode) ==
    [hostType |-> AclType(rule), host |-> AclHost(rule),
     accessMode |-> accessMode]

\* the ACLs of the read-write rules, then those of the read-only rules
NfsAcls(rw, ro) ==
    [i \in 1..Len(rw) |-> NfsAcl(rw[i], "rw")]
        \o [i \in 1..Len(ro) |-> NfsAcl(ro[i], "ro")]

SmbAcls(rw, ro) ==
    [i \in 1..Len(rw) |-> SmbAcl(rw[i], "rw")]
        \o [i \in 1..Len(ro) |-> SmbAcl(ro[i], "ro")]

\* the second request of CreateNfsShare and CreateSmbShare: what the first
\* returned is dropped
ThenSend(first, path, data, rs) ==
    sendRequest(path, data, rs, first.log)

CreateNfsShare(params, rs, log) ==
    IF params.filesystem = <<>>
    THEN [err |-> ValidationError("Filesystem"), log |-> log]
    ELSE ThenSend(sendRequest(Endpoint("setNFSSharingOnShare"),
                              NfsShare(params.filesystem, TRUE), rs, log),
                  Endpoint("setNFSNetworkACLsOnShare"),
                  SetAclParams(params.filesystem,
                               NfsAcls(params.readWriteList,
                                       params.readOnlyList)),
                  rs)

\* strings.TrimPrefix(s, "/")
TrimSlash(s) ==
    IF s # <<>> /\ Head(s) = "/" THEN Tail(s) ELSE s

\* Filesystem.GetDefaultSmbShareName: the path without its leading slash,
\* every other slash replaced by an underscore
GetDefaultSmbShareName(path) ==
    [i \in 1..Len(TrimSlash(path)) |->
        IF TrimSlash(path)[i] = "/" THEN "_" ELSE TrimSlash(path)[i]]

SmbShareName(params) ==
    IF params.shareName = <<>>
    THEN GetDefaultSmbShareName(params.filesystem)
    ELSE params.shareName

CreateSmbShare(params, rs, log) ==
    IF params.filesystem = <<>>
    THEN [err |-> ValidationError("Filesystem"), log |-> log]
    ELSE ThenSend(sendRequest(Endpoint("setSMBSharingOnShare"),
                              SmbShare(params.filesystem, TRUE,
                                       SmbShareName(params), FALSE),
                              rs, log),
                  Endpoint("setSMBNetworkACLsOnShare"),
                  SetAclParams(params.filesystem,
                               SmbAcls(params.readWriteList,
                                       params.readOnlyList)),
                  rs)

----------------------------------------------------------------------------
(* Volumes and volume groups. *)

\* the zero Volume
NoVolume ==
    [Path |-> "", BytesAvailable |-> 0, BytesUsed |-> 0, VolumeSize |-> 0]

\* the zero VolumeGroup
NoVolumeGroup == [Path |-> "", BytesAvailable |-> 0, BytesUsed |-> 0]

\* what a lookup returns, or the runtime panic that ends it
Found(item, err, panic, log) ==
    [item |-> item, err |-> err, panic |-> panic, log |-> log]

\* response.Data after sendRequestWithStruct returned r: an error leaves the
\* response as it was made, without data
DataOf(r) == IF r.err # NoError THEN <<>> ELSE r.value.items

\* response.Data[0]
FirstOf(data, err, log) ==
    IF Len(data) = 0
    THEN Found(NoVolume, NoError, "index out of range [0] with length 0", log)
    ELSE Found(data[1], err, "", log)

\* GetVolume after the request returned r
VolumeOf(path, r) ==
    IF r.err # NoError
    THEN FirstOf(DataOf(r), r.err, r.log)
    ELSE IF Len(DataOf(r)) = 0
         THEN Found(NoVolume, NefError(NotFoundCode, "VolumeGroup", path), "",
                    r.log)
         ELSE FirstOf(DataOf(r), NoError, r.log)

GetVolume(path, rs, log) ==
    IF path = ""
    THEN Found(NoVolume, ValidationError("path"), "", log)
    ELSE VolumeOf(path,
                  sendRequestWithStruct(
                      BuildURI("/storage/volumes", {<<"path", path>>}),
                      <<>>, "struct", rs, log))

\* GetVolumeGroup after the request returned r
VolumeGroupOf(path, r) ==
    IF r.err # NoError
    THEN Found(NoVolumeGroup, r.err, "", r.log)
    ELSE IF Len(DataOf(r)) = 0
         THEN Found(NoVolumeGroup, NefError(NotFoundCode, "VolumeGroup", path),
                    "", r.log)
         ELSE FirstOf(DataOf(r), NoError, r.log)

GetVolumeGroup(path, rs, log) ==
    IF path = ""
    THEN Found(NoVolumeGroup, ValidationError("path"), "", log)
    ELSE VolumeGroupOf(path,
                       sendRequestWithStruct(
                           BuildURI("/storage/volumeGroups",
                                    {<<"path", path>>}),
                           <<>>, "struct", rs, log))

----------------------------------------------------------------------------
(* Clones of snapshots.  The paths of CloneSnapshot are sequences of the   *)
(* pieces that their separators "@" and "/" stand between.                 *)

RECURSIVE Str(_)
\* the string that the pieces spell
Str(pieces) ==
    IF pieces = <<>> THEN "" ELSE Head(pieces) \o Str(Tail(pieces))

CloneSnapshotParams(TargetPath, ReferencedQuotaSize) ==
    [targetPath |-> TargetPath, referencedQuotaSize |-> ReferencedQuotaSize]

\* CloneShareSnapshotParameters.MarshalJSON
CloneShareSnapshotParameters(Path, Name, Inherit) == <<Path, Name, Inherit>>

\* UpdateShareParams.MarshalJSON, Options with a quota only
UpdateShareParams(Path, Quota) == <<Path, [quota |-> Quota]>>

\* what CloneSnapshot returns, or the runtime panic that ends it
Clone(err, panic, log) == [err |-> err, panic |-> panic, log |-> log]

\* CloneSnapshot after the clone request returned r: elements are the
\* components of the target path
CloneQuota(params, elements, rs, r) ==
    IF r.err # NoError
    THEN Clone(r.err, "", r.log)
    ELSE IF params.referencedQuotaSize = 0
         THEN Clone(NoError, "", r.log)
         ELSE Clone(sendRequest(
                        Endpoint("modifyShareProperties"),
                        UpdateShareParams(
                            Str(elements[1]) \o "/" \o Str(elements[2]) \o "/"
                                \o Str(elements[3]) \o "/" \o Str(elements[4]),
                            params.referencedQuotaSize),
                        rs, r.log).err,
                    "",
                    sendRequest(
                        Endpoint("modifyShareProperties"),
                        UpdateShareParams(
                            Str(elements[1]) \o "/" \o Str(elements[2]) \o "/"
                                \o Str(elements[3]) \o "/" \o Str(elements[4]),
                            params.referencedQuotaSize),
                        rs, r.log).log)

\* CloneSnapshot from the split of the target path on: snapshot are the two
\* components of the snapshot path; elements[3] of a target path with fewer
\* than four components is out of range
CloneTo(snapshot, params, elements, rs, log) ==
    IF Len(elements) < 4
    THEN Clone(NoError, "index out of range [3]", log)
    ELSE CloneQuota(params, elements, rs,
                    sendRequest(
                        Endpoint("cloneShareSnapshot"),
                        CloneShareSnapshotParameters(
                            Str(snapshot[1]) \o "@" \o ZebiSnapshotPrefix
                                \o Str(snapshot[2]),
                            Str(elements[4]), FALSE),
                        rs, log))

CloneSnapshot(path, params, rs, log) ==
    IF path = <<>>
    THEN Clone(ValidationError("path"), "", log)
    ELSE IF params.targetPath = <<>>
         THEN Clone(ValidationError("TargetPath"), "", log)
         ELSE IF Len(Split(path, "@")) # 2
              THEN Clone(ValidationError("Path"), "", log)
              ELSE CloneTo(Split(path, "@"), params,
                           Split(params.targetPath, "/"), rs, log)

----------------------------------------------------------------------------
(* Calls of the operations that create, share and look up.                 *)

Exists == Outcome("reply", 400, ObjectBody(AlreadyExistsCode, "exists"))

\* what the wire does with the Sends of a call: the requests are served, or
\* the first is answered with already-exists and the second served or failed,
\* or the first fails, or the session has expired and the first is sent again
OpsOutcomes ==
    {<<>>, <<Exists>>, <<Exists, ServerError>>, <<Exists, DoError>>,
     <<ServerError>>, <<DoError>>, <<Served, ServerError>>,
     <<Served, DoError>>, <<ServerError, ServerError>>,
     <<Expired, Exists>>, <<Expired, Exists, ServerError>>}

CallCreateISCSITarget ==
    /\ pc = "idle"
    /\ \E name \in {"", "iqn.2005-07.com.nexenta:01:test"},
          rs \in OpsOutcomes :
          /\ call' = [op |-> "CreateISCSITarget", uri |-> "/san/iscsi/targets",
                      params |-> CreateISCSITargetParams(name, <<>>),
                      wire |-> rs]
          /\ Returns(CreateISCSITarget(CreateISCSITargetParams(name, <<>>),
                                       rs, <<>>))
    /\ pc' = "done"
    /\ UNCHANGED <<shares, volumes, snapshots, collected>>
    /\ UNCHANGED <<client, goroutines>>

CallCreateUpdateTargetGroup ==
    /\ pc = "idle"
    /\ \E name \in {"", "tg-1", "tg/1"},
          members \in {<<>>, <<"iqn.2005-07.com.nexenta:01:test">>},
          rs \in OpsOutcomes :
          /\ call' = [op |-> "CreateUpdateTargetGroup",
                      uri |-> "/san/targetgroups",
                      params |-> CreateTargetGroupParams(name, members),
                      wire |-> rs]
          /\ Returns(CreateUpdateTargetGroup(
                         CreateTargetGroupParams(name, members), rs, <<>>))
    /\ pc' = "done"
    /\ UNCHANGED <<shares, volumes, snapshots, collected>>
    /\ UNCHANGED <<client, goroutines>>

CallCreateLunMapping ==
    /\ pc = "idle"
    /\ \E hostGroup \in {"", "all"}, volume \in {"", "pool-a/vg/v-1"},
          targetGroup \in {"", "tg-1", "tg/1"}, rs \in OpsOutcomes :
          /\ call' = [op |-> "CreateLunMapping", uri |-> "/san/lunMappings",
                      params |-> CreateLunMappingParams(hostGroup, volume,
                                                        targetGroup),
                      wire |-> rs]
          /\ Returns(CreateLunMapping(
                         CreateLunMappingParams(hostGroup, volume, targetGroup),
                         rs, <<>>))
    /\ pc' = "done"
    /\ UNCHANGED <<shares, volumes, snapshots, collected>>
    /\ UNCHANGED <<client, goroutines>>

\* the filesystems of the share calls, as the sequences of their characters:
\* none, a path, and a path with a leading slash
ShareFilesystems ==
    {<<>>, <<"p", "/", "L", "/", "f">>, <<"/", "p", "/", "f">>}

RuleLists ==
    {<<>>,
     <<NfsRuleList("ip", "10.0.0.0", 8)>>,
     <<NfsRuleList("fqdn", "host.example", 0), NfsRuleList("", "10.0.0.1", 0)>>}

CallCreateNfsShare ==
    /\ pc = "idle"
    /\ \E fs \in ShareFilesystems, rw \in RuleLists, ro \in RuleLists,
          rs \in OpsOutcomes :
          /\ call' = [op |-> "CreateNfsShare", uri |-> "setNFSSharingOnShare",
                      params |-> CreateNfsShareParams(fs, rw, ro),
                      wire |-> rs]
          /\ Returns(CreateNfsShare(CreateNfsShareParams(fs, rw, ro), rs, <<>>))
    /\ pc' = "done"
    /\ UNCHANGED <<shares, volumes, snapshots, collected>>
    /\ UNCHANGED <<client, goroutines>>

CallCreateSmbShare ==
    /\ pc = "idle"
    /\ \E fs \in ShareFilesystems, name \in {<<>>, <<"s", "1">>},
          rw \in RuleLists,
          rs \in OpsOutcomes :
          /\ call' = [op |-> "CreateSmbShare", uri |-> "setSMBSharingOnShare",
                      params |-> CreateSmbShareParams(fs, name, rw, <<>>),
                      wire |-> rs]
          /\ Returns(CreateSmbShare(CreateSmbShareParams(fs, name, rw, <<>>),
                                    rs, <<>>))
    /\ pc' = "done"
    /\ UNCHANGED <<shares, volumes, snapshots, collected>>
    /\ UNCHANGED <<client, goroutines>>

\* what the wire does with the Send of a lookup
LookupOutcomes ==
    {<<>>, <<DoError>>, <<ServerError>>, <<EmptyReply>>,
     <<Outcome("reply", 500, InvalidBody)>>, <<Expired>>, <<Expired, Expired>>}

\* a call that panics does not return: the program is left in "panicked"
CallGetVolume ==
    /\ pc = "idle"
    /\ \E path \in {"", Volume(1).Path, "pool-a/vg/none"},
          rs \in LookupOutcomes :
          /\ call' = [op |-> "GetVolume", uri |-> "/storage/volumes",
                      path |-> path, wire |-> rs]
          /\ Returns(GetVolume(path, rs, <<>>))
          /\ pc' = IF GetVolume(path, rs, <<>>).panic # ""
                   THEN "panicked"
                   ELSE "done"
    /\ UNCHANGED <<shares, volumes, snapshots, collected>>
    /\ UNCHANGED <<client, goroutines>>

CallGetVolumeGroup ==
    /\ pc = "idle"
    /\ \E path \in {"", VolumeGroup.Path, "pool-a/none"},
          rs \in LookupOutcomes :
          /\ call' = [op |-> "GetVolumeGroup", uri |-> "/storage/volumeGroups",
                      path |-> path, wire |-> rs]
          /\ Returns(GetVolumeGroup(path, rs, <<>>))
    /\ pc' = "done"
    /\ UNCHANGED <<shares, volumes, snapshots, collected>>
    /\ UNCHANGED <<client, goroutines>>

\* the Sends of cloneShareSnapshot come first in a call of CloneSnapshot,
\* and the appliance keeps no quota
CallCloneSnapshot ==
    /\ pc = "idle"
    /\ \E path \in {<<>>, <<Share_v1(1).Path, "@", "s-1">>,
                     <<Share_v1(1).Path>>, <<Share_v1(1).Path, "@", "s-9">>},
          target \in {<<>>, <<"pool-a", "/", "fs-2">>,
                       <<"pool-a", "/", "Local", "/", "csi", "/", "fs-2">>,
                       <<"pool-a", "/", "Local", "/", "csi", "/", "fs-3",
                         "/", "x">>},
          quota \in {0, 1}, rs \in OpsOutcomes :
          /\ call' = [op |-> "CloneSnapshot", uri |-> "cloneShareSnapshot",
                      path |-> path,
                      params |-> CloneSnapshotParams(target, quota),
                      wire |-> rs]
          /\ Returns(CloneSnapshot(path, CloneSnapshotParams(target, quota),
                                   rs, <<>>))
          /\ ApplianceServes(
                SelectSeq(CloneSnapshot(path,
                                        CloneSnapshotParams(target, quota),
                                        rs, <<>>).log,
                          LAMBDA s : s.path.uri = "cloneShareSnapshot"),
                rs)
          /\ pc' = IF CloneSnapshot(path, CloneSnapshotParams(target, quota),
                                    rs, <<>>).panic # ""
                   THEN "panicked"
                   ELSE "done"
    /\ UNCHANGED <<volumes, collected>>
    /\ UNCHANGED <<client, goroutines>>

\* bound: the most volumes the appliance holds
MaxVolumes == 2

InitOps ==
    /\ shares = MkShares(1)
    /\ \E n \in 0..MaxVolumes : volumes = MkVolumes(n)
    /\ snapshots = MkSnapshots(1, <<>>)
    /\ collected = <<>>
    /\ pc = "idle"
    /\ call = NoCall
    /\ ret = NoReturn
    /\ sent = <<>>
    /\ client = NoClient /\ goroutines = NoGoroutines

NextOps ==
    \/ CallCreateISCSITarget
    \/ CallCreateUpdateTargetGroup
    \/ CallCreateLunMapping
    \/ CallCreateNfsShare
    \/ CallCreateSmbShare
    \/ CallGetVolume
    \/ CallGetVolumeGroup
    \/ CallCloneSnapshot
    \/ CallDestroyFilesystem
    \/ Return

SpecOps == InitOps /\ [][NextOps]_vars

----------------------------------------------------------------------------
(* Properties of the create operations. *)

CreateOps == {"CreateISCSITarget", "CreateUpdateTargetGroup", "CreateLunMapping"}

\* the error doAuthRequest makes of a Send
ErrorOfSent(s) ==
    IF s.err # NoError THEN s.err ELSE ResponseError(s.status, s.body)

\* the last Send of the create request of the call
CreateRequest ==
    sent[CHOOSE i \in 1..Len(sent) :
             /\ sent[i].path.uri = call.uri
             /\ \A j \in (i + 1)..Len(sent) : sent[j].path.uri # call.uri]

\* a create operation has returned after its create request was sent
CreateReturned ==
    /\ pc = "done"
    /\ call.op \in CreateOps
    /\ \E i \in 1..Len(sent) : sent[i].path.uri = call.uri

\* an already-exists answer to the create request makes the operation
\* succeed, any other error of the create request is returned
ExistingIsSuccess ==
    IF IsAlreadyExistNefError(ErrorOfSent(CreateRequest))
    THEN ret.err = NoError
    ELSE ret.err = ErrorOfSent(CreateRequest)

\* C18: creating an iSCSI target, a target group or a LUN mapping returns
\* nil when the appliance answers the create request with an already-exists
\* error, and returns any other error of the create request unchanged
C18_CreateIsIdempotent ==
    CreateReturned => ExistingIsSuccess

\* an already-exists answer to the create request of a target group is
\* followed by the update of the group's members, the last request of the
\* call, and the operation returns what the update returns
ExistingIsUpdated ==
    IF IsAlreadyExistNefError(ErrorOfSent(CreateRequest))
    THEN /\ sent[Len(sent)].path.uri
               = "/san/targetgroups/" \o PathEscape(call.params.name)
         /\ sent[Len(sent)].data = UpdateTargetGroupParams(call.params.members)
         /\ ret.err = ErrorOfSent(sent[Len(sent)])
    ELSE ret.err = ErrorOfSent(CreateRequest)

\* C18, amended: creating an iSCSI target or a LUN mapping returns nil when
\* the appliance answers the create request with an already-exists error;
\* creating a target group then updates the members of the existing group
\* and returns the result of the update; any other error of the create
\* request is returned unchanged
C18_CreateIsIdempotentOrUpdates ==
    CreateReturned
        => IF call.op = "CreateUpdateTargetGroup"
           THEN ExistingIsUpdated
           ELSE ExistingIsSuccess

\* the target group existed and its update failed
C18_Witness ==
    /\ CreateReturned
    /\ call.op = "CreateUpdateTargetGroup"
    /\ call.params.name = "tg/1"
    /\ call.wire = <<Exists, ServerError>>
    /\ Len(sent) = 2
    /\ sent[2].path.uri = "/san/targetgroups/tg%2F1"
    /\ ret.err # NoError

----------------------------------------------------------------------------
(* Properties of the errors that the operations return. *)

\* the Send is answered with an expired session and sent again
SentAgain(log, i) ==
    /\ i < Len(log)
    /\ log[i].err = NoError
    /\ NeedsLogin(log[i].status,
                  parseNefError(log[i].body, "checking login status"))

RECURSIVE RequestsFrom(_, _)
\* the requests of a call from Send i on, each with the error that
\* doAuthRequest returned for it
RequestsFrom(log, i) ==
    IF i > Len(log)
    THEN <<>>
    ELSE IF SentAgain(log, i)
         THEN <<[uri |-> log[i].path.uri, err |-> ErrorOfSent(log[i + 1])]>>
                  \o RequestsFrom(log, i + 2)
         ELSE <<[uri |-> log[i].path.uri, err |-> ErrorOfSent(log[i])]>>
                  \o RequestsFrom(log, i + 1)

\* the requests that the call has issued
Requests == RequestsFrom(sent, 1)

\* the request is the create request of a target, a target group or a LUN
\* mapping, answered with already-exists
DocumentedException(request) ==
    /\ call.op \in CreateOps
    /\ request.uri = call.uri
    /\ IsAlreadyExistNefError(request.err)

\* C19: an operation that has returned returns an error whenever one of the
\* requests it issued has failed, unless the failure is the already-exists
\* answer to the create request of a target, a target group or a LUN mapping
C19_NoErrorIsSwallowed ==
    pc = "done" /\ call.op # "none"
        => \A k \in 1..Len(Requests) :
               Requests[k].err # NoError /\ ~DocumentedException(Requests[k])
                   => ret.err # NoError

\* C20: no operation ends in a panic, and GetVolume returns the error of its
\* request when the request fails
C20_OperationsReturn ==
    /\ pc # "panicked"
    /\ (/\ pc = "done"
        /\ call.op = "GetVolume"
        /\ Len(Requests) = 1
        /\ Requests[1].err # NoError)
          => ret.err = Requests[1].err

----------------------------------------------------------------------------
(* Properties of the validation of the caller's input. *)

\* the call was made with bad input: a required path, name or list is empty,
\* or a path has the wrong number of components
BadInput ==
    CASE call.op \in {"DestroyFilesystem", "GetVolume", "GetVolumeGroup"} ->
            call.path = ""
      [] call.op = "CreateISCSITarget" ->
            call.params.name = ""
      [] call.op = "CreateUpdateTargetGroup" ->
            call.params.name = "" \/ call.params.members = <<>>
      [] call.op = "CreateLunMapping" ->
            \/ call.params.hostGroup = ""
            \/ call.params.volume = ""
            \/ call.params.targetGroup = ""
      [] call.op \in {"CreateNfsShare", "CreateSmbShare"} ->
            call.params.filesystem = <<>>
      [] call.op = "CloneSnapshot" ->
            \/ Len(Split(call.path, "@")) # 2
            \/ call.path = <<>>
            \/ Len(Split(call.params.targetPath, "/")) # 4
      [] OTHER -> FALSE

\* C21: a call with bad input returns a validation error and has sent no
\* request
C21_ValidationFailsFast ==
    pc \in {"done", "panicked"} /\ BadInput
        => /\ pc = "done"
           /\ ret.err.type = "validation"
           /\ sent = <<>>

----------------------------------------------------------------------------
(* Properties of CloneSnapshot. *)

\* every quota update of the call comes after a clone request of the call
\* that succeeded
QuotaAfterClone ==
    \A i \in 1..Len(sent) :
        sent[i].path.uri = "modifyShareProperties"
            => \E j \in 1..(i - 1) :
                   /\ sent[j].path.uri = "cloneShareSnapshot"
                   /\ ErrorOfSent(sent[j]) = NoError

\* C30: CloneSnapshot sends its quota update only after its clone request
\* has succeeded, and a call of it that returns an error has created no
\* filesystem on the appliance
C30_CloneIsAllOrNothing ==
    [][pc = "idle" /\ pc' = "done" /\ call'.op = "CloneSnapshot"
          => /\ QuotaAfterClone'
             /\ ret'.err # NoError => shares' = shares]_vars

----------------------------------------------------------------------------
(* Callers that share one client.  Every goroutine is in a call of         *)
(* doAuthRequest and is followed through Client.Send statement by          *)
(* statement; at is the statement it stands before.                        *)

\* bound: the goroutines that share the client
MaxGoroutines == 2

\* bound: the Sends that are followed
MaxRequests == 4

Goroutines == 1..MaxGoroutines

\* what the wire does with a Send of a goroutine
ClientOutcomes ==
    {Outcome("reply", 200, ArrayBody(<<>>)), Expired, ServerError, DoError}

\* a goroutine outside a call.  load is the counter value that
\* c.requestID++ has read, ids the request ids its Sends have logged, stored
\* the increments it has written, log the Sends of its call
Resting ==
    [at |-> "idle", path |-> Endpoint(""), data |-> <<>>, load |-> 0,
     ids |-> <<>>, stored |-> 0, log |-> <<>>, err |-> NoError]

\* variant: Lock does not wait
CanLock_Always(mux) == TRUE

\* c.mux.Lock() goes on when the mutex is free
CanLock(mux) == mux = 0

\* variant: every expired answer has the request sent again
MayResend_Always(sends) == TRUE

\* the request is sent again after its first Send only
MayResend(sends) == sends = 1

\* the calls in progress
Calling == {g \in Goroutines : goroutines[g].at # "idle"}

\* a goroutine calls doAuthRequest(path, data)
GoCall(g) ==
    /\ goroutines[g].at = "idle"
    /\ client.requestID + 2 * Cardinality(Calling) + 2 <= MaxRequests
    /\ \E path \in Paths, data \in Payloads :
          goroutines' = [goroutines EXCEPT
                            ![g].at = "lock", ![g].path = path,
                            ![g].data = data, ![g].log = <<>>,
                            ![g].err = NoError]
    /\ UNCHANGED client

\* c.mux.Lock()
Lock(g) ==
    /\ goroutines[g].at = "lock"
    /\ client.requestID < MaxRequests
    /\ CanLock(client.mux)
    /\ client' = [client EXCEPT !.mux = g]
    /\ goroutines' = [goroutines EXCEPT ![g].at = "load"]

\* c.requestID++, the read
Load(g) ==
    /\ goroutines[g].at = "load"
    /\ goroutines' = [goroutines EXCEPT ![g].at = "store",
                                         ![g].load = client.requestID]
    /\ UNCHANGED client

\* c.requestID++, the write
Store(g) ==
    /\ goroutines[g].at = "store"
    /\ client' = [client EXCEPT !.requestID = goroutines[g].load + 1]
    /\ goroutines' = [goroutines EXCEPT ![g].at = "fields",
                                         ![g].stored = @ + 1]

\* l := c.log.WithFields(... "reqID": c.requestID)
WithFields(g) ==
    /\ goroutines[g].at = "fields"
    /\ goroutines' = [goroutines EXCEPT
                         ![g].at = "unlock",
                         ![g].ids = Append(@, client.requestID)]
    /\ UNCHANGED client

\* c.mux.Unlock()
Unlock(g) ==
    /\ goroutines[g].at = "unlock"
    /\ client' = [client EXCEPT !.mux = 0]
    /\ goroutines' = [goroutines EXCEPT ![g].at = "do"]

\* doAuthRequest after the Send came back with r: the request is sent
\* again, or the call returns
AfterDo(g, r) ==
    IF /\ r.err = NoError
       /\ MayResend(Len(goroutines[g].log) + 1)
       /\ NeedsLogin(r.status, parseNefError(r.body, "checking login status"))
    THEN goroutines' = [goroutines EXCEPT
                           ![g].at = "lock",
                           ![g].log = Append(@, Sent(goroutines[g].path,
                                                     goroutines[g].data, r))]
    ELSE goroutines' = [goroutines EXCEPT
                           ![g].at = "done",
                           ![g].log = Append(@, Sent(goroutines[g].path,
                                                     goroutines[g].data, r)),
                           ![g].err = IF r.err # NoError
                                      THEN r.err
                                      ELSE ResponseError(r.status, r.body)]

\* the rest of Send: the request goes out and the answer is read
Do(g) ==
    /\ goroutines[g].at = "do"
    /\ \E outcome \in ClientOutcomes :
          \E r \in {Send(goroutines[g].path, goroutines[g].data, outcome)} :
              AfterDo(g, r)
    /\ UNCHANGED client

\* the caller takes the error
GoReturn(g) ==
    /\ goroutines[g].at = "done"
    /\ goroutines' = [goroutines EXCEPT ![g].at = "idle"]
    /\ UNCHANGED client

InitClient ==
    /\ shares = <<>> /\ volumes = <<>> /\ snapshots = <<>>
    /\ collected = <<>>
    /\ pc = "idle"
    /\ call = NoCall
    /\ ret = NoReturn
    /\ sent = <<>>
    /\ client = NoClient
    /\ goroutines = [g \in Goroutines |-> Resting]

NextClient ==
    \E g \in Goroutines :
        /\ \/ GoCall(g)
           \/ Lock(g)
           \/ Load(g)
           \/ Store(g)
           \/ WithFields(g)
           \/ Unlock(g)
           \/ Do(g)
           \/ GoReturn(g)
        /\ UNCHANGED <<shares, volumes, snapshots, collected, pc, call, ret,
                       sent>>

SpecClient == InitClient /\ [][NextClient]_vars

----------------------------------------------------------------------------
(* Properties of the slice requests of the list loops. *)

\* a call of GetFilesystems or GetVolumes has returned, every Send of it
\* served by the appliance
ListAllServed ==
    /\ pc = "done" /\ call.op \in {"GetFilesystems", "GetVolumes"}
    /\ sent # <<>>
    /\ \A i \in 1..Len(sent) : sent[i].err = NoError /\ sent[i].status = 200

RECURSIVE SliceOffset(_)
RECURSIVE SliceCount(_)
\* the items the slices before the i-th slice request returned
SliceOffset(i) ==
    IF i = 1 THEN 0 ELSE SliceOffset(i - 1) + SliceCount(i - 1)

\* the items the i-th slice request returned: the records of the answer for
\* GetVolumesSlice, its window of the answer for GetFilesystemsSlice
SliceCount(i) ==
    IF call.op = "GetVolumes"
    THEN Len(sent[i].body.items)
    ELSE WindowSize(Len(sent[i].body.items), nsFilesystemListLimit - 1,
                    SliceOffset(i))

\* C24: GetFilesystems and GetVolumes ask for slices of limit
\* nsFilesystemListLimit - 1 at the offset of the items returned so far, and
\* the last slice they ask for is one that returned fewer than
\* nsFilesystemListLimit - 1 items.
C24_ListAllPagesUntilShortSlice ==
    ListAllServed =>
        /\ \A i \in 1..Len(sent) :
              call.op = "GetVolumes" =>
                  /\ QueryValue(sent[i].path, "limit")
                        = ToString(nsFilesystemListLimit - 1)
                  /\ QueryValue(sent[i].path, "offset")
                        = ToString(SliceOffset(i))
        /\ SliceCount(Len(sent)) < nsFilesystemListLimit - 1

----------------------------------------------------------------------------
(* Properties of the request of DestroyFilesystem. *)

\* C25: DestroyFilesystem makes one request, deleteShare, sent once or, after
\* an expired session, twice; its payload is the path, Recursive =
\* DestroySnapshots, ErrorIfNotFound = false and Promote =
\* PromoteMostRecentCloneIfExists; what the request ends with, a refusal of
\* the appliance included, is what DestroyFilesystem returns.
C25_DestroyIsOneDeleteShare ==
    (pc = "done" /\ call.op = "DestroyFilesystem") =>
        /\ Len(sent) \in {1, 2}
        /\ Len(sent) = 2 => SessionExpired(sent[1])
        /\ \A i \in 1..Len(sent) :
              /\ sent[i].path = Endpoint("deleteShare")
              /\ sent[i].data = <<call.path, call.params.DestroySnapshots,
                                  FALSE,
                                  call.params.PromoteMostRecentCloneIfExists>>
        /\ ret.err = ErrorOfSent(LastSent)

\* a destroy without destroySnapshots and with promotion of a filesystem
\* that has snapshots was sent once and came back with the refusal
C25_Witness ==
    /\ pc = "done" /\ call.op = "DestroyFilesystem"
    /\ call.before = "has-snapshots"
    /\ ~call.params.DestroySnapshots
    /\ call.params.PromoteMostRecentCloneIfExists
    /\ Len(sent) = 1
    /\ sent[1].status = 400
    /\ IsInUse(ret.err)

----------------------------------------------------------------------------
(* Properties of the accepted asynchronous job. *)

\* C26: a Send that comes back with status 202 is the last Send of the call:
\* doAuthRequest returns its body as it is and no error, sendRequest no
\* error, and sendRequestWithStruct no error but the one of decoding the
\* body.
C26_AcceptedIsSuccess ==
    ExecutorReturned =>
        \A i \in 1..Len(sent) :
            (sent[i].err = NoError /\ sent[i].status = StatusAccepted) =>
                /\ i = Len(sent)
                /\ call.op \in {"doAuthRequest", "sendRequest"} =>
                      ret.err = NoError
                /\ call.op = "doAuthRequest" => ret.body = sent[i].body
                /\ call.op = "sendRequestWithStruct" =>
                      ret.err = NoError \/ ret.err.type = "decode"

\* doAuthRequest has sent the request again after an expired session, the
\* answer was 202 with a body that classifies as an error, and it returned
\* the body and no error
C26_Witness ==
    /\ pc = "done" /\ call.op = "doAuthRequest"
    /\ Len(sent) = 2
    /\ SessionExpired(sent[1])
    /\ LastSent.err = NoError
    /\ LastSent.status = StatusAccepted
    /\ Classifies(LastSent.body)
    /\ ret.err = NoError
    /\ ret.body = LastSent.body

----------------------------------------------------------------------------
(* Properties of a slice request that fails inside a list loop. *)

\* a call of one of the list loops has returned
ListLoopReturned ==
    /\ pc = "done"
    /\ call.op \in {"GetFilesystems", "GetVolumes",
                    "GetFilesystemsWithStartingToken"}

\* the i-th Send of the call ends a slice request and the request has failed:
\* the Send failed, its status is a failure status, or its body has nothing
\* to decode
SliceRequestFailed(i) ==
    /\ ~SentAgain(sent, i)
    /\ \/ ErrorOfSent(sent[i]) # NoError
       \/ sent[i].body.kind \in {"nil", "empty", "invalid"}

\* C27: a slice request that fails is the last request of GetFilesystems,
\* GetVolumes and GetFilesystemsWithStartingToken; the call returns the
\* error of that request, no items and the empty nextToken.
C27_SliceFailureEndsList ==
    ListLoopReturned =>
        \A i \in 1..Len(sent) :
            SliceRequestFailed(i) =>
                /\ i = Len(sent)
                /\ ret.err # NoError
                /\ IF ErrorOfSent(sent[i]) # NoError
                   THEN ret.err = ErrorOfSent(sent[i])
                   ELSE ret.err.type = "decode"
                /\ ret.items = <<>>
                /\ call.op = "GetFilesystemsWithStartingToken" =>
                      ret.nextToken = ""

\* a page of two after the first share was asked of a project of five
\* shares, the request found the session expired, was sent again and failed
C27_Witness ==
    /\ pc = "done" /\ call.op = "GetFilesystemsWithStartingToken"
    /\ Len(shares) = 5
    /\ call.token = Share_v1(1).Path /\ call.limit = 2
    /\ Len(sent) = 2
    /\ SessionExpired(sent[1])
    /\ sent[2].err # NoError
    /\ ret.err = sent[2].err
    /\ ret.items = <<>> /\ ret.nextToken = ""

----------------------------------------------------------------------------
(* Termination of the list loops. *)

\* the collection that the loop of the call reads
LoopCollection == IF call.op = "GetVolumes" THEN volumes ELSE shares

\* C28: a call of GetFilesystems, GetVolumes or
\* GetFilesystemsWithStartingToken, whatever the token and the limit, makes
\* at most one slice request for every nsFilesystemListLimit - 1 items of
\* the collection and one more: its loop ends after finitely many turns.
C28_ListLoopsTerminate ==
    pc \in {"looping", "done"} =>
        call.turns <= (Len(LoopCollection) \div (nsFilesystemListLimit - 1)) + 1

\* a page of 99 after the second share of a collection of 101 has returned
\* after a slice request
C28_Witness ==
    /\ pc = "done" /\ call.op = "GetFilesystemsWithStartingToken"
    /\ Len(shares) = MaxItems
    /\ call.token = Share_v1(2).Path
    /\ call.limit = nsFilesystemListLimit - 1
    /\ call.turns = 1
    /\ Len(sent) = 1
    /\ ret.err = NoError
    /\ Len(ret.items) = nsFilesystemListLimit - 3

----------------------------------------------------------------------------
(* Properties of a walk whose token was destroyed. *)

\* a page of a walk has returned: the token of the call came with the page
\* before
WalkPageReturned ==
    /\ pc = "done" /\ call.op = "GetFilesystemsWithStartingToken"
    /\ collected # <<>>
    /\ call.token = collected[Len(collected)].Path

\* C29: a page asked with the token of a filesystem that was destroyed since
\* the token was handed out has no items and an empty nextToken, and no
\* error when the appliance serves the request; no page of a walk holds a
\* filesystem that a page before held.
C29_DestroyedTokenEndsWalk ==
    WalkPageReturned =>
        /\ PositionOf(call.token) = 0 =>
              /\ ret.items = <<>>
              /\ ret.nextToken = ""
              /\ (/\ sent # <<>>
                  /\ LastSent.err = NoError
                  /\ LastSent.status = 200
                  /\ LastSent.body.kind = "array") => ret.err = NoError
        /\ \A i \in 1..Len(ret.items), j \in 1..Len(collected) :
              ret.items[i].Path # collected[j].Path

\* the second share of five was the token and was destroyed; the appliance
\* served the next page, which came back empty
C29_Witness ==
    /\ WalkPageReturned
    /\ Len(collected) = 2
    /\ call.token = Share_v1(2).Path
    /\ Len(shares) = 4
    /\ PositionOf(call.token) = 0
    /\ Len(sent) = 1 /\ LastSent.status = 200
    /\ ret.err = NoError
    /\ ret.items = <<>> /\ ret.nextToken = ""

----------------------------------------------------------------------------
(* Properties of the callers that share the client. *)

RECURSIVE StoredBy(_)
\* the increments that the goroutines 1..n have written
StoredBy(n) == IF n = 0 THEN 0 ELSE StoredBy(n - 1) + goroutines[n].stored

\* C22: no increment of the request counter is lost, requestID is the number
\* of the Sends that have incremented it, and no two Sends log the same
\* request id.
C22_RequestCounterIsExact ==
    /\ client.requestID = StoredBy(Len(goroutines))
    /\ \A g \in DOMAIN goroutines, h \in DOMAIN goroutines :
          \A i \in 1..Len(goroutines[g].ids), j \in 1..Len(goroutines[h].ids) :
              (g # h \/ i # j) => goroutines[g].ids[i] # goroutines[h].ids[j]

\* goroutine 2 holds the mutex for the third Send while goroutine 1, which
\* has logged the first, waits for the mutex to send again
C22_Witness ==
    /\ Len(goroutines) >= 2
    /\ client.mux = 2
    /\ client.requestID = 3
    /\ goroutines[2].at = "fields"
    /\ goroutines[1].at = "lock"
    /\ goroutines[1].ids = <<1>>
    /\ goroutines[2].ids = <<2>>

\* C23: a call that has returned has sent its request once, or twice when the
\* first Send found the session expired, each time with its own path and
\* payload, and returns what its own last Send gives, whatever the other
\* calls met.
C23_CallsRetryOnTheirOwn ==
    \A g \in DOMAIN goroutines :
        goroutines[g].at = "done" =>
            /\ Len(goroutines[g].log) \in {1, 2}
            /\ Len(goroutines[g].log) = 2 <=> SessionExpired(goroutines[g].log[1])
            /\ \A i \in 1..Len(goroutines[g].log) :
                  /\ goroutines[g].log[i].path = goroutines[g].path
                  /\ goroutines[g].log[i].data = goroutines[g].data
            /\ goroutines[g].err
                  = ErrorOfSent(goroutines[g].log[Len(goroutines[g].log)])

\* two calls with different paths have both met the expired session, have
\* sent again in turns, and one has succeeded while the other has failed
C23_Witness ==
    /\ Len(goroutines) >= 2
    /\ goroutines[1].at = "done" /\ goroutines[2].at = "done"
    /\ goroutines[1].path # goroutines[2].path
    /\ goroutines[1].ids = <<1, 3>>
    /\ goroutines[2].ids = <<2, 4>>
    /\ SessionExpired(goroutines[1].log[1])
    /\ SessionExpired(goroutines[2].log[1])
    /\ goroutines[1].err = NoError
    /\ goroutines[2].err # NoError

====
